---------------------------- MODULE Spec2Model ----------------------------
(***************************************************************************)
(* A model of the ACO shader-compiler back end passes:                     *)
(*   - handle_operands   (aco_lower_to_hw_instr.cpp): parallel-copy        *)
(*                        resolution, together with the machine semantics  *)
(*                        of the instructions it emits;                    *)
(*   - dead_code_analysis (aco_dead_code_analysis.cpp): use counts and     *)
(*                        liveness by a backward fixpoint over the CFG;    *)
(*   - insert_exec_mask  (aco_insert_exec_mask.cpp): the WQM demand         *)
(*                        analysis and the rewrite that threads the stack  *)
(*                        of execution masks through the CFG;              *)
(*   - lower_to_hw_instr (aco_lower_to_hw_instr.cpp): the replacement of   *)
(*                        pseudo instructions by machine instructions.     *)
(* Each pass is a state machine of its own (SpecCopy, ...). The variables  *)
(* of the passes a specification does not run stay at their idle values.   *)
(***************************************************************************)
EXTENDS Integers, Sequences, FiniteSets, TLC

VARIABLES
    \* ---- handle_operands ----
    copy_map,       \* std::map<PhysReg, copy_operation>: dst reg -> [op, uses, size]
    copy_in,        \* the copy set handle_operands was called with
    pi,             \* the pseudo instruction: [tmp_in_scc, scratch_sgpr]
    chip_class,     \* "GFX8" or "GFX9"
    ho_pc,          \* position inside handle_operands
    ho_it,          \* the iterator `it` of the cycle loop (a key, or EndIt)
    preserve_scc,   \* local of handle_operands
    constants,      \* local of handle_operands
    instructions,   \* ctx->instructions: the emitted machine instructions
    regs,           \* register file after executing `instructions`
    regs_in,        \* register file before the first emitted instruction
    \* ---- dead_code_analysis ----
    program,        \* Program::blocks: index -> [instructions, linear_preds]
    current_block,  \* dce_ctx::current_block
    uses,           \* dce_ctx::uses: temp id -> use count (uint16_t)
    live,           \* dce_ctx::live: block -> instruction -> bool
    dce_pc,         \* position inside dead_code_analysis
    dce_run,        \* 1: first analysis, 2: analysis of the stripped program
    dce_first,      \* what the first analysis returned and marked live
    \* ---- insert_exec_mask ----
    blocks,         \* Program::blocks (0-based index i is blocks[i + 1])
    blocks_in,      \* Program::blocks as instruction selection left them
    next_id,        \* Program::allocationID: the last Temp id handed out
    program_needs,  \* [needs_wqm, needs_exact] of Program
    info,           \* exec_ctx::info: per block [exec, instr_needs, ...]
    loop,           \* exec_ctx::loop: the stack of loop_info
    handle_wqm,     \* exec_ctx::handle_wqm
    wqm,            \* wqm_ctx: [worklist, defined_in, needs_wqm, branch_wqm]
    em_pc,          \* position inside insert_exec_mask
    em_block,       \* the block the loop of insert_exec_mask is at
    coupled,        \* per block, info.exec as add_coupling_code left it
    \* ---- pure functions of the IR (reduction identity, Operand) ----
    fn_pc,          \* "start" before the call, "done" after it
    fn_in,          \* the arguments of the call
    fn_out,         \* what the call returned or constructed
    \* ---- lower_to_hw_instr ----
    lw_blocks,      \* Program::blocks (0-based index i is lw_blocks[i + 1])
    lw_in,          \* Program::blocks on entry
    lw_opts,        \* [chip_class, wb_smem_l1_on_end] of Program
    lw_block,       \* index of the block the outer loop is at
    lw_instr,       \* position in block.instructions the inner loop is at
    lw_ctx,         \* lower_context: [instructions, from]; from[i] is the
                    \* position of the instruction instructions[i] stands for
    lw_from,        \* per lowered block, the `from` of its instructions
    lw_copies,      \* the copy_operations of the last call of handle_operands
    lw_pc           \* position inside lower_to_hw_instr

varsCopy == <<copy_map, copy_in, pi, chip_class, ho_pc, ho_it, preserve_scc,
              constants, instructions, regs, regs_in>>

varsDce == <<program, current_block, uses, live, dce_pc, dce_run, dce_first>>

varsExec == <<blocks, blocks_in, next_id, program_needs, info, loop,
              handle_wqm, wqm, em_pc, em_block, coupled>>

varsFn == <<fn_pc, fn_in, fn_out>>

varsLower == <<lw_blocks, lw_in, lw_opts, lw_block, lw_instr, lw_ctx, lw_from,
               lw_copies, lw_pc>>

vars == <<varsCopy, varsDce, varsExec, varsFn, varsLower>>

\* what the actions of one pass leave alone
notCopy == <<varsDce, varsExec, varsFn, varsLower>>
notDce == <<varsCopy, varsExec, varsFn, varsLower>>
notExec == <<varsCopy, varsDce, varsFn, varsLower>>
notFn == <<varsCopy, varsDce, varsExec, varsLower>>
notLower == <<varsCopy, varsDce, varsExec, varsFn>>

\* the variables of a pass that is not run
IdleCopy ==
    /\ copy_map = <<>> /\ copy_in = <<>> /\ pi = <<>> /\ chip_class = ""
    /\ ho_pc = "idle" /\ ho_it = 0 /\ preserve_scc = FALSE /\ constants = FALSE
    /\ instructions = <<>> /\ regs = <<>> /\ regs_in = <<>>
IdleDce ==
    /\ program = <<>> /\ current_block = 0 /\ uses = <<>> /\ live = <<>>
    /\ dce_pc = "idle" /\ dce_run = 0 /\ dce_first = <<>>
IdleExec ==
    /\ blocks = <<>> /\ blocks_in = <<>> /\ next_id = 0
    /\ program_needs = <<>> /\ info = <<>> /\ loop = <<>>
    /\ handle_wqm = FALSE /\ wqm = <<>> /\ em_pc = "idle" /\ em_block = 0
    /\ coupled = <<>>
IdleFn ==
    /\ fn_pc = "idle" /\ fn_in = <<>> /\ fn_out = <<>>
IdleLower ==
    /\ lw_blocks = <<>> /\ lw_in = <<>> /\ lw_opts = <<>> /\ lw_block = 0
    /\ lw_instr = 0 /\ lw_ctx = <<>> /\ lw_from = <<>> /\ lw_copies = <<>>
    /\ lw_pc = "idle"

-----------------------------------------------------------------------------
(* Generic helpers *)

MinOf(S) == CHOOSE x \in S : \A y \in S : x <= y
MaxOf(S) == CHOOSE x \in S : \A y \in S : x >= y

RECURSIVE BitXor(_, _)
BitXor(a, b) ==
    IF a = 0 THEN b
    ELSE IF b = 0 THEN a
    ELSE ((a + b) % 2) + 2 * BitXor(a \div 2, b \div 2)

RECURSIVE Pow2(_)
Pow2(n) == IF n = 0 THEN 1 ELSE 2 * Pow2(n - 1)

-----------------------------------------------------------------------------
(* Physical registers (aco_ir.h) *)

scc == 253

\* the registers copies are made between: s0..s3, v0 and v1, scc; and the
\* scratch SGPR of the pseudo instruction, which no copy reads or writes
SgprRegs == {0, 1, 2, 3}
VgprRegs == {256, 257}
ScratchSgpr == MaxOf(SgprRegs) + 1
DestRegs == SgprRegs \cup {scc} \cup VgprRegs
AllRegs == DestRegs \cup {ScratchSgpr}

\* RegClass::type() of the 1-dword class a register of the universe is given
RegTypeOf(r) == IF r \in VgprRegs THEN "vgpr" ELSE "sgpr"

\* Operand(uint32_t v): an inline constant is fixed to the slot 128 + v
ConstOperand(v) == [isConst |-> TRUE, reg |-> 128 + v, val |-> v]
\* Operand(PhysReg, RegClass)
RegOperand(r) == [isConst |-> FALSE, reg |-> r, val |-> 0]

-----------------------------------------------------------------------------
(* Machine semantics of the instructions handle_operands emits *)

Instr(opc, d, a, b) == [opcode |-> opc, def |-> d, op0 |-> a, op1 |-> b]

ReadOp(rf, o) == IF o.isConst THEN o.val ELSE rf[o.reg]
Truth(v) == IF v # 0 THEN 1 ELSE 0

ExecInstr(rf, ins) ==
    LET a == ReadOp(rf, ins.op0)
        b == ReadOp(rf, ins.op1)
    IN  CASE ins.opcode \in {"s_mov_b32", "v_mov_b32"} ->
                [rf EXCEPT ![ins.def] = a]
          [] ins.opcode = "s_mov_b64" ->
                [rf EXCEPT ![ins.def] = a, ![ins.def + 1] = rf[ins.op0.reg + 1]]
          [] ins.opcode = "s_cmp_lg_i32" ->
                [rf EXCEPT ![scc] = IF a # b THEN 1 ELSE 0]
          [] ins.opcode = "s_xor_b32" ->
                [rf EXCEPT ![ins.def] = BitXor(a, b), ![scc] = Truth(BitXor(a, b))]
          [] ins.opcode = "v_xor_b32" ->
                [rf EXCEPT ![ins.def] = BitXor(a, b)]
          [] ins.opcode = "v_swap_b32" ->
                [rf EXCEPT ![ins.def] = a, ![ins.op0.reg] = rf[ins.def]]

RECURSIVE ExecSeq(_, _)
ExecSeq(rf, seq) ==
    IF seq = <<>> THEN rf ELSE ExecSeq(ExecInstr(rf, Head(seq)), Tail(seq))

-----------------------------------------------------------------------------
(* handle_operands (aco_lower_to_hw_instr.cpp:316-479) *)

MaxCopies == 3
EndIt == 0 - 1

\* copy_operation {op, def, uses, size}; def is the map key
CopyOp(o) == [op |-> o, uses |-> 0, size |-> 1]

\* sources a copy into register d may have: the register classes of a copy
\* agree, except that a VGPR may also be written from the scalar file; only
\* for scc does the value of a constant matter (zero or not)
SourcesOf(d) ==
    IF RegTypeOf(d) = "vgpr"
    THEN {RegOperand(r) : r \in VgprRegs \cup {0}} \cup {ConstOperand(3)}
    ELSE {RegOperand(r) : r \in SgprRegs \cup {scc}} \cup
         {ConstOperand(c) : c \in IF d = scc THEN {0, 3} ELSE {3}}

CopySetsOver(ds) == {f \in [ds -> UNION {SourcesOf(d) : d \in ds}] :
                        \A d \in ds : f[d] \in SourcesOf(d)}

CopySets == UNION {CopySetsOver(ds) :
                     ds \in {s \in SUBSET DestRegs : Cardinality(s) \in 1..MaxCopies}}

\* every register holds a value of its own (one bit each, so that the XOR of
\* any two differs from every register value); SCC holds a truth value
InitRegFiles ==
    {[r \in AllRegs |->
        IF r = scc THEN b
        ELSE Pow2(1 + Cardinality({x \in AllRegs : x < r}))] : b \in {0, 1}}

Erase(m, k) == [x \in (DOMAIN m) \ {k} |-> m[x]]

\* the first loop (lines 325-348): drop self copies, count the uses of each
\* destination as a source, find out whether a register copy writes scc
RECURSIVE CountUses(_, _, _)
CountUses(m, todo, ws) ==
    IF todo = {} THEN [map |-> m, writes_scc |-> ws]
    ELSE LET k == MinOf(todo)
             rest == todo \ {k}
         IN  IF m[k].op.isConst THEN CountUses(m, rest, ws)
             ELSE LET ws2 == ws \/ (k = scc)
                  IN  IF k = m[k].op.reg
                      THEN CountUses(Erase(m, k), rest, ws2)
                      ELSE IF m[k].op.reg \in DOMAIN m
                      THEN CountUses([m EXCEPT ![m[k].op.reg].uses = @ + 1], rest, ws2)
                      ELSE CountUses(m, rest, ws2)

\* lines 358-373: two adjacent 32-bit sgpr copies become one 64-bit copy
CanCoalesce(m, k) ==
    /\ RegTypeOf(k) = "sgpr"
    /\ m[k].size = 1
    /\ ~m[k].op.isConst
    /\ k % 2 = m[k].op.reg % 2
    /\ LET other_def_reg == IF k % 2 = 1 THEN k - 1 ELSE k + 1
           other_op_reg == IF k % 2 = 1 THEN m[k].op.reg - 1 ELSE m[k].op.reg + 1
       IN  /\ other_def_reg \in DOMAIN m
           /\ m[other_def_reg].uses = 0
           /\ m[other_def_reg].size = 1
           /\ m[other_def_reg].op.reg = other_op_reg
           /\ ~m[other_def_reg].op.isConst

\* the map and the iterator after lines 359-373
Coalesce(m, k) ==
    IF CanCoalesce(m, k)
    THEN LET other == IF k % 2 = 1 THEN k - 1 ELSE k + 1
             keep == IF k % 2 = 1 THEN other ELSE k
             gone == IF k % 2 = 1 THEN k ELSE other
         IN  [map |-> [Erase(m, gone) EXCEPT ![keep].size = 2], it |-> keep]
    ELSE [map |-> m, it |-> k]

\* lines 375-384: the move emitted for a leaf of the location transfer graph
LeafInstr(k, e) ==
    IF k = scc THEN Instr("s_cmp_lg_i32", scc, e.op, ConstOperand(0))
    ELSE IF e.size = 2 /\ RegTypeOf(k) = "sgpr" THEN Instr("s_mov_b64", k, RegOperand(e.op.reg), ConstOperand(0))
    ELSE IF RegTypeOf(k) = "sgpr" THEN Instr("s_mov_b32", k, e.op, ConstOperand(0))
    ELSE Instr("v_mov_b32", k, e.op, ConstOperand(0))

\* a slip in lines 386-393: the use counts stay as they were
DecUsesNever(m, e, i) == m

\* lines 386-393: decrement of the use count of each source register. uses is
\* unsigned: the value 2^32 - 1 a decrement of 0 wraps to is written -1 here
\* (every test of the code compares uses with 0 or 1, and ++ undoes --)
RECURSIVE DecUses(_, _, _)
DecUses(m, e, i) ==
    IF e.op.isConst \/ i >= e.size THEN m
    ELSE LET t == e.op.reg + i
         IN  DecUses(IF t \in DOMAIN m
                     THEN [m EXCEPT ![t].uses = @ - 1]
                     ELSE m, e, i + 1)

\* ++it on the std::map
NextKey(m, k) ==
    IF {x \in DOMAIN m : x > k} = {} THEN EndIt ELSE MinOf({x \in DOMAIN m : x > k})
BeginKey(m) == IF DOMAIN m = {} THEN EndIt ELSE MinOf(DOMAIN m)

\* lines 427-452: the instructions swapping swap.def (key k) with swap.op
SwapInstrs(k, e, chip, pscc, scratch) ==
    LET def_as_op == RegOperand(k)
        op_as_def == e.op.reg
        nul == ConstOperand(0)
    IN  IF chip = "GFX9" /\ RegTypeOf(k) = "vgpr"
        THEN <<Instr("v_swap_b32", k, e.op, def_as_op)>>
        ELSE IF e.op.reg = scc \/ k = scc
        THEN LET other == IF e.op.reg = scc THEN k ELSE e.op.reg
             IN  <<Instr("s_mov_b32", scratch, RegOperand(scc), nul),
                   Instr("s_cmp_lg_i32", scc, RegOperand(other), nul),
                   Instr("s_mov_b32", other, RegOperand(scratch), nul)>>
        ELSE IF RegTypeOf(k) = "sgpr"
        THEN IF pscc
             THEN <<Instr("s_mov_b32", scratch, e.op, nul),
                    Instr("s_mov_b32", op_as_def, def_as_op, nul),
                    Instr("s_mov_b32", k, RegOperand(scratch), nul)>>
             ELSE <<Instr("s_xor_b32", op_as_def, e.op, def_as_op),
                    Instr("s_xor_b32", k, e.op, def_as_op),
                    Instr("s_xor_b32", op_as_def, e.op, def_as_op)>>
        ELSE <<Instr("v_xor_b32", op_as_def, e.op, def_as_op),
               Instr("v_xor_b32", k, e.op, def_as_op),
               Instr("v_xor_b32", op_as_def, e.op, def_as_op)>>

\* a slip in lines 454-462: the use of the target is left as it was
RetargetNever(m, k, newreg) == m

\* lines 454-462: the first later entry reading the swapped destination now
\* reads the register its old value went to
Retarget(m, k, newreg) ==
    LET later == {x \in DOMAIN m : x > k /\ m[x].op.reg = k}
    IN  IF later = {} THEN m
        ELSE [m EXCEPT ![MinOf(later)].op = [@ EXCEPT !.reg = newreg]]

\* lines 466-478: the moves of the deferred constants, in map order
RECURSIVE ConstInstrs(_, _)
ConstInstrs(m, todo) ==
    IF todo = {} THEN <<>>
    ELSE LET k == MinOf(todo)
             rest == todo \ {k}
             nul == ConstOperand(0)
         IN  IF ~m[k].op.isConst THEN ConstInstrs(m, rest)
             ELSE <<IF k = scc
                    THEN Instr("s_cmp_lg_i32", scc, nul,
                               ConstOperand(IF m[k].op.val # 0 THEN 1 ELSE 0))
                    ELSE IF RegTypeOf(k) = "sgpr"
                    THEN Instr("s_mov_b32", k, m[k].op, nul)
                    ELSE Instr("v_mov_b32", k, m[k].op, nul)>>
                  \o ConstInstrs(m, rest)

InitCopyOn(sets) ==
    /\ copy_in \in sets
    /\ copy_map = [d \in DOMAIN copy_in |-> CopyOp(copy_in[d])]
    /\ pi \in {[tmp_in_scc |-> t, scratch_sgpr |-> ScratchSgpr] : t \in BOOLEAN}
    /\ chip_class \in {"GFX8", "GFX9"}
    /\ regs_in \in InitRegFiles
    /\ regs = regs_in
    /\ ho_pc = "count"
    /\ ho_it = EndIt
    /\ preserve_scc = FALSE
    /\ constants = FALSE
    /\ instructions = <<>>
    /\ IdleDce
    /\ IdleExec
    /\ IdleFn
    /\ IdleLower

InitCopy == InitCopyOn(CopySets)

\* lines 324-352
HoCountUses ==
    /\ ho_pc = "count"
    /\ LET r == CountUses(copy_map, DOMAIN copy_map, FALSE)
       IN  /\ copy_map' = r.map
           /\ preserve_scc' = (pi.tmp_in_scc /\ ~r.writes_scc)
    /\ ho_pc' = "paths"
    /\ UNCHANGED <<copy_in, pi, chip_class, ho_it, constants, instructions, regs, regs_in>>
    /\ UNCHANGED notCopy

\* one pass of the loop of lines 353-402 that finds an entry with no uses
HoLeaf ==
    /\ ho_pc = "paths"
    /\ \E k \in DOMAIN copy_map : copy_map[k].uses = 0
    /\ LET k0 == MinOf({k \in DOMAIN copy_map : copy_map[k].uses = 0})
           co == Coalesce(copy_map, k0)
           e == co.map[co.it]
           ins == LeafInstr(co.it, e)
       IN  /\ instructions' = Append(instructions, ins)
           /\ regs' = ExecInstr(regs, ins)
           /\ preserve_scc' = (preserve_scc \/ co.it = scc)
           /\ copy_map' = Erase(DecUses(co.map, e, 0), co.it)
    /\ UNCHANGED <<copy_in, pi, chip_class, ho_pc, ho_it, constants, regs_in>>
    /\ UNCHANGED notCopy

\* the loop of lines 353-402 reaches the end; lines 404-408
HoLeafEnd ==
    /\ ho_pc = "paths"
    /\ \A k \in DOMAIN copy_map : copy_map[k].uses # 0
    /\ ho_pc' = IF DOMAIN copy_map = {} THEN "done" ELSE "cycles"
    /\ ho_it' = BeginKey(copy_map)
    /\ UNCHANGED <<copy_map, copy_in, pi, chip_class, preserve_scc, constants,
                   instructions, regs, regs_in>>
    /\ UNCHANGED notCopy

\* one iteration of the loop of lines 409-463
HoCycle ==
    /\ ho_pc = "cycles"
    /\ ho_it # EndIt
    /\ LET k == ho_it
           e == copy_map[k]
       IN  IF k = e.op.reg
           THEN /\ ho_it' = NextKey(copy_map, k)
                /\ UNCHANGED <<copy_map, constants, instructions, regs, ho_pc>>
           ELSE IF e.op.isConst
           THEN /\ constants' = TRUE
                /\ ho_it' = NextKey(copy_map, k)
                /\ UNCHANGED <<copy_map, instructions, regs, ho_pc>>
           ELSE IF \/ (preserve_scc /\ RegTypeOf(k) = "sgpr" /\ k = pi.scratch_sgpr)
                   \/ RegTypeOf(e.op.reg) # RegTypeOf(k)
                   \/ (~(chip_class = "GFX9" /\ RegTypeOf(k) = "vgpr")
                         /\ (e.op.reg = scc \/ k = scc) /\ preserve_scc)
           THEN /\ ho_pc' = "assert_failed"
                /\ UNCHANGED <<copy_map, constants, instructions, regs, ho_it>>
           ELSE LET sw == SwapInstrs(k, e, chip_class, preserve_scc, pi.scratch_sgpr)
                IN  /\ instructions' = instructions \o sw
                    /\ regs' = ExecSeq(regs, sw)
                    /\ IF e.uses # 1
                       THEN /\ ho_pc' = "assert_failed"
                            /\ UNCHANGED <<copy_map, ho_it>>
                       ELSE /\ copy_map' = Retarget(copy_map, k, e.op.reg)
                            /\ ho_it' = NextKey(copy_map, k)
                            /\ ho_pc' = ho_pc
                    /\ UNCHANGED constants
    /\ UNCHANGED <<copy_in, pi, chip_class, preserve_scc, regs_in>>
    /\ UNCHANGED notCopy

\* the loop of lines 409-463 is over; lines 465-479
HoCycleEnd ==
    /\ ho_pc = "cycles"
    /\ ho_it = EndIt
    /\ LET cs == IF constants THEN ConstInstrs(copy_map, DOMAIN copy_map) ELSE <<>>
       IN  /\ instructions' = instructions \o cs
           /\ regs' = ExecSeq(regs, cs)
    /\ ho_pc' = "done"
    /\ UNCHANGED <<copy_map, copy_in, pi, chip_class, ho_it, preserve_scc, constants, regs_in>>
    /\ UNCHANGED notCopy

NextCopy == HoCountUses \/ HoLeaf \/ HoLeafEnd \/ HoCycle \/ HoCycleEnd

SpecCopy == InitCopy /\ [][NextCopy]_vars

-----------------------------------------------------------------------------
(* Claims about handle_operands *)

\* what a register of the universe can hold of a value: SCC is a single bit
StoredIn(d, v) == IF d = scc THEN Truth(v) ELSE v

\* the value the source of the copy into d had before the first instruction
SourceValue(d) == ReadOp(regs_in, copy_in[d])

\* C1: when handle_operands has returned, every destination register holds
\* the value its source had before the first emitted instruction (a constant
\* source: that constant), for every copy set with distinct destinations that
\* does not touch the scratch SGPR.
C1_CopyResolution ==
    ho_pc = "done" =>
        \A d \in DOMAIN copy_in : regs[d] = StoredIn(d, SourceValue(d))

\* the register the copy into d reads, followed j times from d
RECURSIVE SourceChain(_, _)
SourceChain(d, j) ==
    IF j = 0 THEN d ELSE copy_in[SourceChain(d, j - 1)].reg

\* the copy set is one cycle over its destinations: every source is a
\* register, and following the sources from one destination visits them all
\* before it returns
SingleCycle ==
    /\ Cardinality(DOMAIN copy_in) >= 2
    /\ \A d \in DOMAIN copy_in :
           ~copy_in[d].isConst /\ copy_in[d].reg \in DOMAIN copy_in
    /\ {copy_in[d].reg : d \in DOMAIN copy_in} = DOMAIN copy_in
    /\ {SourceChain(MinOf(DOMAIN copy_in), j) :
            j \in 0..(Cardinality(DOMAIN copy_in) - 1)} = DOMAIN copy_in

\* the emitted instructions of opcode opc
Emitted(opc) ==
    {i \in 1..Len(instructions) : instructions[i].opcode = opc}

\* the moves into the scratch SGPR: each begins an exchange by way of it
ScratchMoves ==
    {i \in Emitted("s_mov_b32") : instructions[i].def = pi.scratch_sgpr}

\* the emitted instructions as swap sequences: a v_swap_b32, three XORs, or
\* three instructions that exchange by way of the scratch SGPR
SwapSequences ==
    Cardinality(Emitted("v_swap_b32"))
    + Cardinality(Emitted("s_xor_b32")) \div 3
    + Cardinality(Emitted("v_xor_b32")) \div 3
    + Cardinality(ScratchMoves)
SwapInstructions ==
    Cardinality(Emitted("v_swap_b32")) + Cardinality(Emitted("s_xor_b32"))
    + Cardinality(Emitted("v_xor_b32")) + 3 * Cardinality(ScratchMoves)

\* C12: a copy set that is one cycle over n >= 2 distinct registers is
\* resolved with exactly n - 1 swap sequences and no other instruction; the
\* swap of two registers is one swap sequence and exchanges their values
C12_CycleSwaps ==
    (ho_pc = "done" /\ SingleCycle) =>
        /\ SwapSequences = Cardinality(DOMAIN copy_in) - 1
        /\ SwapInstructions = Len(instructions)
        /\ Cardinality(DOMAIN copy_in) = 2 =>
               \A d \in DOMAIN copy_in : regs[d] = StoredIn(d, SourceValue(d))

\* a cycle over three registers has been resolved
C12_Witness ==
    ho_pc = "done" /\ SingleCycle /\ Cardinality(DOMAIN copy_in) >= 3

-----------------------------------------------------------------------------
(* dead_code_analysis (aco_dead_code_analysis.cpp) *)

\* number of blocks of the loop body behind the loop header
LoopBody == 2

\* An instruction is [defs, ops]: sequences of temp ids, 0 standing for a
\* definition or operand that is not a Temp (isTemp() false).
DInstr(ds, os) == [defs |-> ds, ops |-> os]

\* Temp ids: 1 and 2 are the definitions of p_startpgm (2 the exec mask),
\* 3 is defined in the preheader, 4 by the phi of the loop header, 4 + j in
\* body block j.
BodyTemp(j) == 4 + j
ExitIdx == 2 + LoopBody
NumTemps == 4 + LoopBody

\* The programs analysed: a loop in a structured CFG, with or without a
\* loop nested in it
\*   block 0             p_startpgm; t3 = op(a)
\*   block 1  (header)   t4 = phi(b from block 0, c from the last body block)
\*   block 1+j (body j)  t(4+j) = op(..) , operands defined in dominating blocks
\*   last block (exit)   an instruction defining a non-Temp; a store (no defs)
\* with every operand chosen among the Temps whose definitions dominate it.
\* With `nest`, body block 1 is a loop of its own: it is its own linear
\* predecessor and its instruction may take its own definition back.
BodyInstrs(j) ==
    IF j = 1
    THEN {DInstr(<<BodyTemp(1)>>, <<x, y>>) :
             x \in {0, 3, 4}, y \in {0, 3, 4, BodyTemp(1)}}
    ELSE {DInstr(<<BodyTemp(j)>>, <<x>>) : x \in {0, 4} \cup {BodyTemp(i) : i \in 1..(j - 1)}}

BodyBlockChoices == {f \in [1..LoopBody -> UNION {BodyInstrs(j) : j \in 1..LoopBody}] :
                        \A j \in 1..LoopBody : f[j] \in BodyInstrs(j)}

ProgramChoices ==
    {c \in [a : {0, 1, 2},
            ph : {1, 3} \X ({4} \cup {BodyTemp(j) : j \in 1..LoopBody}),
            body : BodyBlockChoices,
            ex : {0, 3} \X {0, 4, BodyTemp(LoopBody)},
            nest : BOOLEAN] :
        c.body[1].ops[2] = BodyTemp(1) => c.nest}

ProgramOf(c) ==
    [b \in 0..ExitIdx |->
        IF b = 0 THEN [instructions |-> <<DInstr(<<1, 2>>, <<>>), DInstr(<<3>>, <<c.a>>)>>,
                       linear_preds |-> <<>>]
        ELSE IF b = 1 THEN [instructions |-> <<DInstr(<<4>>, <<c.ph[1], c.ph[2]>>)>>,
                            linear_preds |-> <<0, 1 + LoopBody>>]
        ELSE IF b = ExitIdx THEN [instructions |-> <<DInstr(<<0>>, <<c.ex[1]>>), DInstr(<<>>, <<c.ex[2]>>)>>,
                                  linear_preds |-> <<1 + LoopBody>>]
        ELSE [instructions |-> <<c.body[b - 1]>>,
              linear_preds |-> IF b = 2 /\ c.nest THEN <<1, 2>> ELSE <<b - 1>>]]

Programs == {ProgramOf(c) : c \in ProgramChoices}

\* dce_ctx(program): the cursor on the last block, no uses, nothing live
NewCtxLive(prog) == [b \in DOMAIN prog |-> [i \in 1..Len(prog[b].instructions) |-> FALSE]]
NewCtxUses == [t \in 0..NumTemps |-> 0]

\* a slip in line 59: is_live starts out true
IsLiveAlways(instr, u) == TRUE

\* lines 59-64
IsLive(instr, u) ==
    \/ Len(instr.defs) = 0
    \/ \E i \in 1..Len(instr.defs) : instr.defs[i] = 0 \/ u[instr.defs[i]] # 0

\* a slip in line 71: the count is set, not incremented
RECURSIVE CountOperandsSet(_, _, _, _)
CountOperandsSet(instr, i, u, pp) ==
    IF i > Len(instr.ops) THEN [uses |-> u, process_predecessors |-> pp]
    ELSE LET t == instr.ops[i]
         IN  IF t = 0 THEN CountOperandsSet(instr, i + 1, u, pp)
             ELSE CountOperandsSet(instr, i + 1, [u EXCEPT ![t] = 1],
                                   pp \/ u[t] = 0)

\* lines 67-73: count the Temp operands of a live instruction
RECURSIVE CountOperands(_, _, _, _)
CountOperands(instr, i, u, pp) ==
    IF i > Len(instr.ops) THEN [uses |-> u, process_predecessors |-> pp]
    ELSE LET t == instr.ops[i]
         IN  IF t = 0 THEN CountOperands(instr, i + 1, u, pp)
             ELSE CountOperands(instr, i + 1,
                                [u EXCEPT ![t] = (@ + 1) % 65536],
                                pp \/ u[t] = 0)

\* lines 54-76: the instructions of a block, last to first
RECURSIVE ScanBlock(_, _, _, _, _)
ScanBlock(instrs, idx, u, lv, pp) ==
    IF idx < 1 THEN [uses |-> u, live |-> lv, process_predecessors |-> pp]
    ELSE IF lv[idx] THEN ScanBlock(instrs, idx - 1, u, lv, pp)
    ELSE IF IsLive(instrs[idx], u)
    THEN LET c == CountOperands(instrs[idx], 1, u, pp)
         IN  ScanBlock(instrs, idx - 1, c.uses, [lv EXCEPT ![idx] = TRUE],
                       c.process_predecessors)
    ELSE ScanBlock(instrs, idx - 1, u, lv, pp)

\* a slip in lines 78-81: the predecessors are never revisited
RaiseCursorNever(cur, preds, pp) == cur

\* a slip in line 78: the predecessors are revisited whatever was counted
RaiseCursorAlways(cur, preds, pp) ==
    MaxOf({cur} \cup {preds[i] : i \in 1..Len(preds)})

\* lines 78-81
RaiseCursor(cur, preds, pp) ==
    IF pp /\ Len(preds) > 0
    THEN MaxOf({cur} \cup {preds[i] : i \in 1..Len(preds)})
    ELSE cur

\* a slip in line 98: the forced use is not added
StartpgmUseForgotten(prog, u) == u

\* lines 95-98: add one use to exec to prevent startpgm from being removed
StartpgmUse(prog, u) ==
    LET startpgm == prog[0].instructions[1]
        t == startpgm.defs[Len(startpgm.defs)]
    IN  [u EXCEPT ![t] = (@ + 1) % 65536]

\* the instructions the claim on the round trip removes: at least one
\* definition, every definition a Temp, none of them used
Removable(instr, u) ==
    /\ Len(instr.defs) > 0
    /\ \A i \in 1..Len(instr.defs) : instr.defs[i] # 0 /\ u[instr.defs[i]] = 0

RECURSIVE KeepLive(_, _)
KeepLive(instrs, u) ==
    IF instrs = <<>> THEN <<>>
    ELSE IF Removable(Head(instrs), u) THEN KeepLive(Tail(instrs), u)
    ELSE <<Head(instrs)>> \o KeepLive(Tail(instrs), u)

StripDead(prog, u) ==
    [b \in DOMAIN prog |-> [prog[b] EXCEPT !.instructions = KeepLive(@, u)]]

InitDce ==
    /\ program \in Programs
    /\ current_block = ExitIdx
    /\ uses = NewCtxUses
    /\ live = NewCtxLive(program)
    /\ dce_pc = "loop"
    /\ dce_run = 1
    /\ dce_first = <<>>
    /\ IdleCopy
    /\ IdleExec
    /\ IdleFn
    /\ IdleLower

\* one iteration of the loop of lines 90-93: process_block on the block
\* under the cursor
DceProcessBlock ==
    /\ dce_pc = "loop"
    /\ current_block >= 0
    /\ LET next_block == current_block
           block == program[next_block]
           r == ScanBlock(block.instructions, Len(block.instructions),
                          uses, live[next_block], FALSE)
       IN  /\ uses' = r.uses
           /\ live' = [live EXCEPT ![next_block] = r.live]
           /\ current_block' = RaiseCursor(current_block - 1, block.linear_preds,
                                           r.process_predecessors)
    /\ UNCHANGED <<program, dce_pc, dce_run, dce_first>>
    /\ UNCHANGED notDce

\* lines 95-100: the forced use of the exec mask of p_startpgm, and return
DceReturn ==
    /\ dce_pc = "loop"
    /\ current_block < 0
    /\ uses' = StartpgmUse(program, uses)
    /\ dce_pc' = "done"
    /\ UNCHANGED <<program, current_block, live, dce_run, dce_first>>
    /\ UNCHANGED notDce

\* the unused instructions are removed and the analysis is run again
DceStripAndRerun ==
    /\ dce_pc = "done"
    /\ dce_run = 1
    /\ dce_first' = [uses |-> uses, live |-> live, program |-> program]
    /\ program' = StripDead(program, uses)
    /\ current_block' = ExitIdx
    /\ uses' = NewCtxUses
    /\ live' = NewCtxLive(program')
    /\ dce_pc' = "loop"
    /\ dce_run' = 2
    /\ UNCHANGED notDce

NextDce == DceProcessBlock \/ DceReturn \/ DceStripAndRerun

SpecDce == InitDce /\ [][NextDce]_vars

\* the loop of lines 90-93 is sequential code: it keeps running
SpecDceFair == SpecDce /\ WF_vars(NextDce)

-----------------------------------------------------------------------------
(* Claims about dead_code_analysis *)

InstrAt(prog, b, i) == prog[b].instructions[i]
Slots(prog) == {<<b, i>> : b \in DOMAIN prog, i \in 1..4} \cap
               UNION {{<<b, i>> : i \in 1..Len(prog[b].instructions)} : b \in DOMAIN prog}
HasOperand(instr, t) == \E k \in 1..Len(instr.ops) : instr.ops[k] = t
Defines(instr, t) == \E k \in 1..Len(instr.defs) : instr.defs[k] = t

\* Temps that are an operand of an instruction marked live
CountedTemps(prog, lv) ==
    {t \in 1..NumTemps : \E s \in Slots(prog) :
        lv[s[1]][s[2]] /\ HasOperand(InstrAt(prog, s[1], s[2]), t)}

\* C3: when dead_code_analysis returns, the instruction defining a Temp that
\* is an operand of a live instruction has itself been marked live and has
\* had its Temp operands counted, also when it sits in a block behind the
\* consuming phi (loop back-edge).
C3_DceComplete ==
    dce_pc = "done" =>
        \A t \in CountedTemps(program, live) :
            /\ uses[t] # 0
            /\ \A s \in Slots(program) :
                  Defines(InstrAt(program, s[1], s[2]), t) =>
                     /\ live[s[1]][s[2]]
                     /\ \A k \in 1..Len(InstrAt(program, s[1], s[2]).ops) :
                           InstrAt(program, s[1], s[2]).ops[k] # 0 =>
                              uses[InstrAt(program, s[1], s[2]).ops[k]] # 0

\* C3 witness: the header phi is live, its back-edge operand is defined in the
\* last body block and used nowhere else, and that definition was marked
\* live: the last body block was visited again after the header
C3_Witness ==
    /\ dce_pc = "done" /\ dce_run = 1
    /\ live[1][1]
    /\ InstrAt(program, 1, 1).ops[2] = BodyTemp(LoopBody)
    /\ ~HasOperand(InstrAt(program, ExitIdx, 2), BodyTemp(LoopBody))
    /\ live[1 + LoopBody][1]

\* the exec mask: the last definition of p_startpgm
StartpgmMask(prog) ==
    LET startpgm == prog[0].instructions[1] IN startpgm.defs[Len(startpgm.defs)]

\* C4: after dead_code_analysis the use count of the last definition of
\* p_startpgm is at least 1, also when no instruction references it.
C4_EntryMaskUsed ==
    dce_pc = "done" => uses[StartpgmMask(program)] >= 1

\* C4 witness: the analysis has returned for a program in which no
\* instruction has the exec mask as an operand
C4_Witness ==
    /\ dce_pc = "done"
    /\ \A s \in Slots(program) :
          ~HasOperand(InstrAt(program, s[1], s[2]), StartpgmMask(program))

\* C5: after the instructions with at least one definition and no used
\* definition have been removed, a second dead_code_analysis reports the same
\* use count for every Temp and leaves nothing to remove.
C5_RoundTrip ==
    (dce_pc = "done" /\ dce_run = 2) =>
        /\ uses = dce_first.uses
        /\ \A s \in Slots(program) : ~Removable(InstrAt(program, s[1], s[2]), uses)

\* C5 witness: the second analysis has returned for a program from which
\* the first one had something removed
C5_Witness ==
    /\ dce_pc = "done" /\ dce_run = 2
    /\ \E b \in DOMAIN program :
          Len(program[b].instructions) < Len(dce_first.program[b].instructions)

\* the linear predecessors of block b
LinearPreds(prog, b) ==
    {prog[b].linear_preds[i] : i \in 1..Len(prog[b].linear_preds)}

\* one iteration of the loop has left the cursor above the block below the
\* one it processed (line 91 takes the cursor one down)
CursorRaised ==
    dce_pc = "loop" /\ dce_pc' = "loop" /\ current_block' > current_block - 1

\* C15: dead_code_analysis terminates, also on nested loops: the cursor is
\* raised only when the use count of some Temp goes from zero to nonzero,
\* which happens at most once per Temp (a nonzero count stays nonzero), and
\* only to the index of a linear predecessor of the block being processed.
C15_CursorAndTermination ==
    /\ [][/\ CursorRaised =>
               /\ \E t \in 1..NumTemps : uses[t] = 0 /\ uses'[t] # 0
               /\ current_block' \in LinearPreds(program, current_block)
          /\ (dce_pc = "loop" /\ dce_pc' = "loop") =>
               \A t \in 1..NumTemps : uses[t] # 0 => uses'[t] # 0]_vars
    /\ (dce_pc = "loop") ~> (dce_pc = "done")

\* C15 witness: in a program with a nested loop the header phi is live and
\* the cursor is back on the last body block, behind the header
C15_Witness ==
    /\ dce_pc = "loop" /\ dce_run = 1
    /\ Len(program[2].linear_preds) = 2
    /\ live[1][1]
    /\ current_block = 1 + LoopBody

\* the operand slots of instructions marked live that reference Temp t
LiveOperandSlots(prog, lv, t) ==
    UNION {{<<s[1], s[2], k>> :
               k \in {j \in 1..Len(InstrAt(prog, s[1], s[2]).ops) :
                         /\ lv[s[1]][s[2]]
                         /\ InstrAt(prog, s[1], s[2]).ops[j] = t}} :
              s \in Slots(prog)}

\* C16: when dead_code_analysis returns, the count of every Temp is the
\* number of operand slots referencing it in the instructions marked live,
\* plus one for the forced use of the program-start mask: an instruction of
\* a block processed again is counted once, a dead instruction not at all.
C16_UseCountsExact ==
    dce_pc = "done" =>
        \A t \in 1..NumTemps :
            uses[t] = Cardinality(LiveOperandSlots(program, live, t))
                      + (IF t = StartpgmMask(program) THEN 1 ELSE 0)

\* C16 witness: the analysis has returned; the last body block was processed
\* a second time for the back-edge operand of the header phi, some Temp has
\* two uses, and a dead instruction has a Temp operand
C16_Witness ==
    /\ dce_pc = "done" /\ dce_run = 1
    /\ live[1][1] /\ live[1 + LoopBody][1]
    /\ InstrAt(program, 1, 1).ops[2] = BodyTemp(LoopBody)
    /\ ~HasOperand(InstrAt(program, ExitIdx, 2), BodyTemp(LoopBody))
    /\ \E t \in 1..NumTemps : uses[t] >= 2
    /\ \E s \in Slots(program) :
          /\ ~live[s[1]][s[2]]
          /\ \E k \in 1..Len(InstrAt(program, s[1], s[2]).ops) :
                InstrAt(program, s[1], s[2]).ops[k] # 0
-----------------------------------------------------------------------------
(* The IR insert_exec_mask works on (aco_ir.h). A bitset is the set of the *)
(* names of its bits.                                                      *)

exec == 126

\* enum block_kind
block_kind_uniform == {"uniform"}
block_kind_top_level == {"top_level"}
block_kind_loop_preheader == {"loop_preheader"}
block_kind_loop_header == {"loop_header"}
block_kind_loop_exit == {"loop_exit"}
block_kind_continue == {"continue"}
block_kind_break == {"break"}
block_kind_discard == {"discard"}
block_kind_branch == {"branch"}
block_kind_merge == {"merge"}
block_kind_invert == {"invert"}
block_kind_uses_discard_if == {"uses_discard_if"}
block_kind_needs_lowering == {"needs_lowering"}

\* enum WQMState
Unspecified == {}
Exact == {"Exact"}
WQM == {"WQM"}
Preserve_WQM == {"Preserve_WQM"}

\* enum mask_type
mask_type_global == {"global"}
mask_type_exact == {"exact"}
mask_type_wqm == {"wqm"}
mask_type_loop == {"loop"}

\* (bits & flag) != 0
Has(bits, flag) == bits \cap flag # {}

\* a Definition or Operand without a fixed register, an Operand without a
\* constant, and the Temp() that names no value
NoReg == 0 - 1
NoConst == 0 - 1
NoTemp == 0

Def(t) == [id |-> t, reg |-> NoReg]
DefFixed(t, r) == [id |-> t, reg |-> r]
Op(t) == [id |-> t, reg |-> NoReg, c |-> NoConst]
OpFixed(t, r) == [id |-> t, reg |-> r, c |-> NoConst]
OpConst(v) == [id |-> NoTemp, reg |-> NoReg, c |-> v]

Ins(opc, fmt, defs, ops) ==
    [opcode |-> opc, format |-> fmt, definitions |-> defs, operands |-> ops,
     disable_wqm |-> FALSE, target |-> <<>>]

Branch(opc, ops, tgt) ==
    [opcode |-> opc, format |-> "PSEUDO_BRANCH", definitions |-> <<>>,
     operands |-> ops, disable_wqm |-> FALSE, target |-> tgt]

NewBlock(k, depth, lin, log, instrs) ==
    [kind |-> k, loop_nest_depth |-> depth, linear_preds |-> lin,
     linear_succs |-> <<>>, logical_preds |-> log, instructions |-> instrs,
     live_out_exec |-> NoTemp]

Last(s) == s[Len(s)]
Front(s) == SubSeq(s, 1, Len(s) - 1)
-----------------------------------------------------------------------------
(* The programs insert_exec_mask is given. Instruction selection builds    *)
(* the CFG of a structured shader: a divergent if/else is the block of     *)
(* kind branch, the logical and the linear then-block, the invert block,   *)
(* the logical and the linear else-block and the merge block; a loop is    *)
(* preheader, header, body and exit; a divergent break or continue splits  *)
(* its block into the jump block, a linear-only block that takes the edge  *)
(* out, and the block the remaining lanes go on in. The state st of the    *)
(* selection holds the blocks, the current block cur, the last Temp id nt, *)
(* the control-flow info (depth, div, div_cont, div_branch, has_branch)    *)
(* and the contexts of the open ifs and loops.                             *)

\* Temps of p_startpgm: a shader argument and the initial exec mask
ArgTemp == NoTemp + 1
StartExec == ArgTemp + 1

p_logical_start == Ins("p_logical_start", "PSEUDO", <<>>, <<>>)
p_logical_end == Ins("p_logical_end", "PSEUDO", <<>>, <<>>)
p_branch == Branch("p_branch", <<>>, <<>>)
p_startpgm ==
    Ins("p_startpgm", "PSEUDO", <<Def(ArgTemp), DefFixed(StartExec, exec)>>, <<>>)
v_cmp(t) == Ins("v_cmp_lt_f32", "VOPC", <<Def(t)>>, <<Op(ArgTemp)>>)

Stmt(o, x, y) == [op |-> o, a |-> x, b |-> y]

AddInstrs(st, idx, is) ==
    [st EXCEPT !.blocks[idx + 1].instructions = @ \o is]
AddKind(st, idx, k) ==
    [st EXCEPT !.blocks[idx + 1].kind = @ \cup k]
\* the end of a block: p_logical_end, the branch, the kind
EndBlock(st, idx, branch, k) ==
    [st EXCEPT !.blocks[idx + 1].instructions = @ \o <<p_logical_end, branch>>,
               !.blocks[idx + 1].kind = @ \cup k]
\* add_linear_edge to a block that exists already
AddLinearEdge(st, from, to) ==
    [st EXCEPT !.blocks[from + 1].linear_succs = Append(@, to),
               !.blocks[to + 1].linear_preds = Append(@, from)]
AddLogicalEdge(st, from, to) ==
    [st EXCEPT !.blocks[to + 1].logical_preds = Append(@, from)]
\* insert_block: the new block becomes the current one; the edges into it
\* were added while it was pending
InsertBlock(st, k, lin, log, instrs) ==
    [st EXCEPT
       !.blocks = Append(
           [i \in 1..Len(st.blocks) |->
              IF \E j \in 1..Len(lin) : lin[j] = i - 1
              THEN [st.blocks[i] EXCEPT !.linear_succs = Append(@, Len(st.blocks))]
              ELSE st.blocks[i]],
           NewBlock(k, st.depth, lin, log, instrs)),
       !.cur = Len(st.blocks)]

\* an edge to the exit of the innermost loop, which is still pending
PendingLin(st, idx) ==
    [st EXCEPT !.loops[Len(st.loops)].lin = Append(@, idx)]
PendingLog(st, idx) ==
    [st EXCEPT !.loops[Len(st.loops)].log = Append(@, idx)]

\* the edge out of block idx: to `target`, or to the pending exit (target < 0)
EdgeOut(st, idx, target) ==
    IF target < 0 THEN PendingLin(st, idx) ELSE AddLinearEdge(st, idx, target)

\* the jump block idx, the block that takes the edge out, and the block
\* that continues
SplitJump(st, idx, target) ==
    InsertBlock(
        EdgeOut(InsertBlock(EndBlock(st, idx, p_branch, {}), block_kind_uniform,
                            <<idx>>, <<>>, <<p_branch>>),
                Len(st.blocks), target),
        {}, <<idx>>, <<>>, <<p_logical_start>>)

\* a jump all lanes take: the block ends here
UniformJump(st, idx, target) ==
    [EdgeOut(EndBlock(st, idx, p_branch, block_kind_uniform), idx, target)
        EXCEPT !.has_branch = TRUE]

BuildSimple(s, st) ==
    CASE s.op = "wqm" ->
           AddInstrs([st EXCEPT !.nt = st.nt + 2], st.cur,
               <<Ins("v_interp_p1_f32", "VINTRP", <<Def(st.nt + 1)>>,
                     <<Op(ArgTemp)>>),
                 Ins("p_wqm", "PSEUDO", <<Def(st.nt + 2)>>, <<Op(st.nt + 1)>>)>>)
      [] s.op = "store" ->
           AddInstrs(st, st.cur,
               <<[Ins("buffer_store_dword", "MUBUF", <<>>, <<Op(ArgTemp)>>)
                    EXCEPT !.disable_wqm = TRUE]>>)
      [] s.op = "wqm_store" ->
           AddInstrs([st EXCEPT !.nt = st.nt + 2], st.cur,
               <<Ins("v_interp_p1_f32", "VINTRP", <<Def(st.nt + 1)>>,
                     <<Op(ArgTemp)>>),
                 Ins("p_wqm", "PSEUDO", <<Def(st.nt + 2)>>, <<Op(st.nt + 1)>>),
                 [Ins("buffer_store_dword", "MUBUF", <<>>, <<Op(st.nt + 2)>>)
                    EXCEPT !.disable_wqm = TRUE]>>)
      [] s.op = "discard_if" ->
           AddKind(AddInstrs([st EXCEPT !.nt = st.nt + 1], st.cur,
               <<v_cmp(st.nt + 1),
                 Ins("p_discard_if", "PSEUDO", <<>>, <<Op(st.nt + 1)>>)>>),
               st.cur, block_kind_uses_discard_if)
      [] s.op = "is_helper" ->
           AddInstrs([st EXCEPT !.nt = st.nt + 1], st.cur,
               <<Ins("p_is_helper", "PSEUDO", <<Def(st.nt + 1)>>, <<>>)>>)

\* visit_jump and visit_discard
BuildJump(s, st) ==
    CASE s.op = "break" ->
           IF ~st.div /\ ~st.div_cont
           THEN UniformJump(PendingLog(AddKind(st, st.cur, block_kind_break),
                                       st.cur), st.cur, 0 - 1)
           ELSE SplitJump([PendingLog(AddKind(st, st.cur, block_kind_break),
                                      st.cur) EXCEPT !.div_branch = TRUE],
                          st.cur, 0 - 1)
      [] s.op = "continue" ->
           IF st.div
           THEN SplitJump([AddLogicalEdge(AddKind(st, st.cur, block_kind_continue),
                                          st.cur, Last(st.loops).header)
                              EXCEPT !.div_cont = TRUE, !.div_branch = TRUE],
                          st.cur, Last(st.loops).header)
           ELSE UniformJump(AddLogicalEdge(AddKind(st, st.cur, block_kind_continue),
                                           st.cur, Last(st.loops).header),
                            st.cur, Last(st.loops).header)
      [] s.op = "discard" ->
           IF st.depth > 0
           THEN IF st.div \/ st.div_cont
                THEN SplitJump(AddKind(st, st.cur, block_kind_discard
                                       \cup block_kind_break), st.cur, 0 - 1)
                ELSE UniformJump(AddKind(st, st.cur, block_kind_discard),
                                 st.cur, 0 - 1)
           ELSE AddKind(st, st.cur, block_kind_discard)

\* begin_divergent_if_then: the condition and the branch end the current
\* block; the context ic of the if is opened
begin_divergent_if_then(st) ==
    InsertBlock(
        [AddKind(AddInstrs(st, st.cur,
                   <<v_cmp(st.nt + 1), p_logical_end,
                     Branch("p_cbranch_z", <<Op(st.nt + 1)>>, <<>>)>>),
                 st.cur, block_kind_branch)
            EXCEPT !.nt = st.nt + 1, !.div = TRUE,
                   !.ifs = Append(@,
                      [BB_if |-> st.cur, cond |-> st.nt + 1,
                       top |-> st.blocks[st.cur + 1].kind \cap block_kind_top_level,
                       div_old |-> st.div, then_end |-> 0,
                       then_div_branch |-> FALSE, invert |-> 0])],
        {}, <<st.cur>>, <<st.cur>>, <<p_logical_start>>)

\* begin_divergent_if_else: the linear then-block, the invert block and
\* the logical else-block
begin_divergent_if_else(st) ==
    [InsertBlock(
        InsertBlock(
            InsertBlock(EndBlock(st, st.cur, p_branch, block_kind_uniform),
                        block_kind_uniform, <<Last(st.ifs).BB_if>>, <<>>,
                        <<p_branch>>),
            block_kind_invert, <<st.cur, Len(st.blocks)>>, <<>>,
            <<Branch("p_cbranch_nz", <<Op(Last(st.ifs).cond)>>, <<>>)>>),
        {}, <<Len(st.blocks) + 1>>, <<Last(st.ifs).BB_if>>, <<p_logical_start>>)
      EXCEPT !.div_branch = FALSE,
             !.ifs[Len(st.ifs)].then_end = st.cur,
             !.ifs[Len(st.ifs)].then_div_branch = st.div_branch,
             !.ifs[Len(st.ifs)].invert = Len(st.blocks) + 1]

\* the logical predecessors of the merge block: the ends of the sides
\* that did not leave by a divergent jump
MergeLogical(st) ==
    (IF Last(st.ifs).then_div_branch THEN <<>> ELSE <<Last(st.ifs).then_end>>)
    \o (IF st.div_branch THEN <<>> ELSE <<st.cur>>)

\* end_divergent_if: the linear else-block and the merge block
end_divergent_if(st) ==
    [InsertBlock(
        InsertBlock(EndBlock(st, st.cur, p_branch, block_kind_uniform),
                    block_kind_uniform, <<Last(st.ifs).invert>>, <<>>,
                    <<p_branch>>),
        block_kind_merge \cup Last(st.ifs).top, <<st.cur, Len(st.blocks)>>,
        MergeLogical(st), <<p_logical_start>>)
      EXCEPT !.div = Last(st.ifs).div_old,
             !.div_branch = st.div_branch /\ Last(st.ifs).then_div_branch,
             !.ifs = Front(@)]

\* visit_loop, before the body: the preheader ends, the header begins
begin_loop(st) ==
    [InsertBlock(
        [EndBlock(st, st.cur, p_branch,
                  block_kind_loop_preheader \cup block_kind_uniform)
            EXCEPT !.depth = st.depth + 1],
        block_kind_loop_header, <<st.cur>>, <<st.cur>>, <<p_logical_start>>)
      EXCEPT !.div = FALSE, !.div_cont = FALSE, !.div_branch = FALSE,
             !.has_branch = FALSE,
             !.loops = Append(@,
                [header |-> Len(st.blocks), lin |-> <<>>, log |-> <<>>,
                 top |-> st.blocks[st.cur + 1].kind \cap block_kind_top_level,
                 div_old |-> st.div, div_cont_old |-> st.div_cont,
                 div_branch_old |-> st.div_branch])]

\* the back edge of a body that does not end in a jump
LoopBackEdge(st) ==
    IF st.has_branch THEN st
    ELSE AddLogicalEdge(
             AddLinearEdge(
                 EndBlock(st, st.cur, p_branch,
                          block_kind_continue \cup block_kind_uniform),
                 st.cur, Last(st.loops).header),
             st.cur, Last(st.loops).header)

\* visit_loop, after the body: the back edge and the exit block
end_loop(st) ==
    [InsertBlock([LoopBackEdge(st) EXCEPT !.depth = st.depth - 1],
                 block_kind_loop_exit \cup Last(st.loops).top,
                 Last(st.loops).lin, Last(st.loops).log, <<p_logical_start>>)
      EXCEPT !.div = Last(st.loops).div_old,
             !.div_cont = Last(st.loops).div_cont_old,
             !.div_branch = Last(st.loops).div_branch_old,
             !.has_branch = FALSE,
             !.loops = Front(@)]

\* visit_if on a uniform condition, before the then-list: the condition and
\* the branch end the current block, which stays uniform
begin_uniform_if_then(st) ==
    InsertBlock(
        [AddKind(AddInstrs(st, st.cur,
                   <<Ins("s_cmp_lg_u32", "SOPC", <<Def(st.nt + 1)>>,
                         <<Op(ArgTemp)>>),
                     p_logical_end,
                     Branch("p_cbranch_z", <<Op(st.nt + 1)>>, <<>>)>>),
                 st.cur, block_kind_uniform)
            EXCEPT !.nt = st.nt + 1, !.has_branch = FALSE,
                   !.div_branch = FALSE,
                   !.ifs = Append(@,
                      [BB_if |-> st.cur, cond |-> st.nt + 1, top |-> {},
                       div_old |-> st.div, then_end |-> 0,
                       then_div_branch |-> FALSE, invert |-> 0])],
        {}, <<st.cur>>, <<st.cur>>, <<p_logical_start>>)

\* a side that did not end in a jump branches to the block behind the if
EndUniformSide(st) ==
    IF st.has_branch THEN st
    ELSE EndBlock(st, st.cur, p_branch, block_kind_uniform)

\* the then-list is done (then_end below zero: it ended in a jump); the
\* else block begins
begin_uniform_if_else(st) ==
    [InsertBlock(EndUniformSide(st), {}, <<Last(st.ifs).BB_if>>,
                 <<Last(st.ifs).BB_if>>, <<p_logical_start>>)
      EXCEPT !.has_branch = FALSE, !.div_branch = FALSE,
             !.ifs[Len(st.ifs)].then_end =
                 IF st.has_branch THEN 0 - 1 ELSE st.cur,
             !.ifs[Len(st.ifs)].then_div_branch = st.div_branch]

\* the edges into the block behind the if
UniformSides(st) ==
    (IF Last(st.ifs).then_end < 0 THEN <<>> ELSE <<Last(st.ifs).then_end>>)
    \o (IF st.has_branch THEN <<>> ELSE <<st.cur>>)
UniformSidesLogical(st) ==
    (IF Last(st.ifs).then_end < 0 \/ Last(st.ifs).then_div_branch
     THEN <<>> ELSE <<Last(st.ifs).then_end>>)
    \o (IF st.has_branch \/ st.div_branch THEN <<>> ELSE <<st.cur>>)

\* the else-list is done; the block behind the if begins
end_uniform_if(st) ==
    [InsertBlock(EndUniformSide(st), {}, UniformSides(st),
                 UniformSidesLogical(st), <<p_logical_start>>)
      EXCEPT !.has_branch = FALSE,
             !.div_branch = st.div_branch \/ Last(st.ifs).then_div_branch,
             !.ifs = Front(@)]

RECURSIVE BuildList(_, _)

BuildStmt(s, st) ==
    CASE s.op = "if" ->
           end_divergent_if(
               BuildList(s.b, begin_divergent_if_else(
                   BuildList(s.a, begin_divergent_if_then(st)))))
      [] s.op = "loop" -> end_loop(BuildList(s.a, begin_loop(st)))
      [] s.op = "uniform_if" ->
           end_uniform_if(
               BuildList(s.b, begin_uniform_if_else(
                   BuildList(s.a, begin_uniform_if_then(st)))))
      [] s.op \in {"break", "continue", "discard"} -> BuildJump(s, st)
      [] OTHER -> BuildSimple(s, st)

BuildList(ss, st) ==
    IF ss = <<>> THEN st ELSE BuildList(Tail(ss), BuildStmt(Head(ss), st))

\* the end of the program
EndProgram(st) ==
    [blocks |-> AddInstrs(st, st.cur,
                   <<p_logical_end, Ins("s_endpgm", "SOPP", <<>>, <<>>)>>).blocks,
     allocationID |-> st.nt]

\* the whole shader: the start block, the body, and the end of the program
BuildProgram(ss) ==
    EndProgram(BuildList(ss,
        [blocks |-> <<NewBlock(block_kind_top_level, 0, <<>>, <<>>,
                               <<p_startpgm, p_logical_start>>)>>,
         cur |-> 0, nt |-> StartExec, depth |-> 0, div |-> FALSE,
         div_cont |-> FALSE, div_branch |-> FALSE,
         has_branch |-> FALSE, ifs |-> <<>>, loops |-> <<>>]))
\* ---- the shaders: statement lists of at most MaxStmts statements ----
MaxStmts == 4

SimpleOps == {"wqm", "store", "wqm_store", "discard_if"}

RECURSIVE Lists(_, _, _)
\* the statement lists of at most n statements; in_loop / in_if say what
\* encloses the list (jumps end a list; the break on a uniform condition,
\* `if (c) break;`, is one statement of a loop body)
Lists(n, in_loop, in_if) ==
    IF n = 0 THEN {<<>>}
    ELSE LET simple == {Stmt(o, <<>>, <<>>) : o \in SimpleOps}
             jumps == {Stmt(o, <<>>, <<>>) :
                         o \in (IF in_loop THEN {"break", "continue"} ELSE {})
                               \cup (IF in_if \/ in_loop THEN {"discard"} ELSE {})}
             ifs(k) == UNION {{Stmt("if", x, y) :
                                 x \in Lists(i, in_loop, TRUE),
                                 y \in Lists(k - 1 - i, in_loop, TRUE)} :
                              i \in 0..(k - 1)}
             loops(k) == {Stmt("loop", x, <<>>) : x \in Lists(k - 1, TRUE, FALSE)}
             exits == IF in_loop
                      THEN {Stmt("uniform_if", <<Stmt("break", <<>>, <<>>)>>, <<>>)}
                      ELSE {}
             heads(k) == IF k = 1 THEN simple \cup exits
                         ELSE ifs(k) \cup loops(k)
         IN  {<<>>} \cup {<<j>> : j \in jumps}
             \cup UNION {{<<h>> \o r : h \in heads(k) \cup ifs(k),
                                      r \in Lists(n - k, in_loop, in_if)} :
                         k \in 1..n}

\* a loop instruction selection accepts is left on some path
WellFormed(p) ==
    \A i \in 1..Len(p.blocks) :
        Has(p.blocks[i].kind, block_kind_loop_exit)
            => Len(p.blocks[i].linear_preds) > 0

ExecPrograms ==
    {p \in {BuildProgram(ss) : ss \in Lists(MaxStmts, FALSE, FALSE)} :
        WellFormed(p)}

-----------------------------------------------------------------------------
(* calculate_wqm_needs (aco_insert_exec_mask.cpp:94-255) *)

Blk(bs, idx) == bs[idx + 1]

NotDefined == 65535

isSALU(instr) == instr.format \in {"SOP1", "SOP2", "SOPC", "SOPK", "SOPP"}

\* lines 94-120; the shaders hold no vector pseudo-op, spill or reload
pred_by_exec_mask(instr) ==
    IF instr.format = "SMEM" \/ isSALU(instr) THEN FALSE
    ELSE IF instr.format = "PSEUDO_BARRIER" THEN FALSE
    ELSE IF instr.opcode \in {"v_readlane_b32", "v_writelane_b32"} THEN FALSE
    ELSE TRUE

\* lines 122-131
needs_exact(instr) ==
    IF instr.format \in {"MUBUF", "MIMG"} THEN instr.disable_wqm
    ELSE instr.opcode = "p_fs_buffer_store_smem"

\* wqm_ctx::wqm_ctx, lines 54-62
\* visits lists the blocks mark_block_wqm went on with after line 144
NewWqmCtx(bs, ntemps) ==
    [worklist |-> {i - 1 : i \in 1..Len(bs)},
     defined_in |-> [t \in 0..ntemps |-> NotDefined],
     needs_wqm |-> {},
     branch_wqm |-> {},
     visits |-> <<>>,
     failed |-> FALSE]

\* a slip in line 135: the defining block is put on the worklist whether
\* or not the flag changes
SetNeedsWqmAlways(ctx, tmp) ==
    [ctx EXCEPT !.needs_wqm = @ \cup {tmp},
                !.worklist = IF ctx.defined_in[tmp] # NotDefined
                             THEN @ \cup {ctx.defined_in[tmp]} ELSE @]

\* lines 133-140
set_needs_wqm(ctx, tmp) ==
    IF tmp \in ctx.needs_wqm THEN ctx
    ELSE [ctx EXCEPT !.needs_wqm = @ \cup {tmp},
                     !.worklist = IF ctx.defined_in[tmp] # NotDefined
                                  THEN @ \cup {ctx.defined_in[tmp]} ELSE @]

RECURSIVE SetOperandsWqm(_, _, _)
SetOperandsWqm(ctx, ops, j) ==
    IF j > Len(ops) THEN ctx
    ELSE SetOperandsWqm(IF ops[j].id # NoTemp THEN set_needs_wqm(ctx, ops[j].id)
                        ELSE ctx, ops, j + 1)

RECURSIVE mark_block_wqm(_, _, _)
RECURSIVE MarkPredsWqm(_, _, _, _)

\* lines 142-163
mark_block_wqm(ctx, bs, block_idx) ==
    IF block_idx \in ctx.branch_wqm THEN ctx
    ELSE LET block == Blk(bs, block_idx)
             branch == Last(block.instructions)
             c1 == [ctx EXCEPT !.branch_wqm = @ \cup {block_idx},
                              !.visits = Append(@, block_idx)]
             c2 == IF branch.opcode # "p_branch"
                   THEN IF Len(branch.operands) > 0 /\ branch.operands[1].id # NoTemp
                        THEN set_needs_wqm(c1, branch.operands[1].id)
                        ELSE [c1 EXCEPT !.failed = TRUE]
                   ELSE c1
         IN  IF Has(block.kind, block_kind_top_level) THEN c2
             ELSE MarkPredsWqm(c2, bs, block.logical_preds, 1)

\* for (unsigned pred_idx : block.logical_preds) mark_block_wqm(ctx, pred_idx)
MarkPredsWqm(ctx, bs, preds, k) ==
    IF ctx.failed \/ k > Len(preds) THEN ctx
    ELSE MarkPredsWqm(mark_block_wqm(ctx, bs, preds[k]), bs, preds, k + 1)

\* a slip in line 182: only p_wqm passes the demand on to its operands
BlockNeedsStepWqmOnly(r, bs, block_idx, i) ==
    LET block == Blk(bs, block_idx)
        instr == block.instructions[i]
        needs0 == IF needs_exact(instr) THEN Exact ELSE Unspecified
        pred_by_exec == pred_by_exec_mask(instr)
        temps == {instr.definitions[j].id : j \in 1..Len(instr.definitions)}
                     \ {NoTemp}
        c1 == [r.ctx EXCEPT !.defined_in =
                  [t \in DOMAIN @ |-> IF t \in temps THEN block_idx ELSE @[t]]]
        wanted == needs0 = Unspecified /\ temps \cap r.ctx.needs_wqm # {}
        needs1 == IF wanted /\ pred_by_exec THEN WQM ELSE needs0
        propagate_wqm == instr.opcode = "p_wqm"
        preserve_wqm == instr.opcode = "p_discard_if"
        c2 == IF propagate_wqm THEN SetOperandsWqm(c1, instr.operands, 1) ELSE c1
        needs == IF ~propagate_wqm /\ preserve_wqm /\ Has(r.block_needs, WQM)
                 THEN Preserve_WQM ELSE needs1
        c3 == IF needs = WQM /\ instr.opcode = "p_phi"
              THEN MarkPredsWqm(c2, bs, block.logical_preds, 1) ELSE c2
    IN  [ctx |-> c3,
         instr_needs |-> [r.instr_needs EXCEPT ![i] = needs],
         block_needs |-> r.block_needs \cup needs]

\* one iteration of the loop of lines 169-205, for instruction i
BlockNeedsStep(r, bs, block_idx, i) ==
    LET block == Blk(bs, block_idx)
        instr == block.instructions[i]
        needs0 == IF needs_exact(instr) THEN Exact ELSE Unspecified
        pred_by_exec == pred_by_exec_mask(instr)
        temps == {instr.definitions[j].id : j \in 1..Len(instr.definitions)}
                     \ {NoTemp}
        c1 == [r.ctx EXCEPT !.defined_in =
                  [t \in DOMAIN @ |-> IF t \in temps THEN block_idx ELSE @[t]]]
        wanted == needs0 = Unspecified /\ temps \cap r.ctx.needs_wqm # {}
        needs1 == IF wanted /\ pred_by_exec THEN WQM ELSE needs0
        propagate_wqm == instr.opcode = "p_wqm" \/ wanted
        preserve_wqm == instr.opcode = "p_discard_if"
        c2 == IF propagate_wqm THEN SetOperandsWqm(c1, instr.operands, 1) ELSE c1
        needs == IF ~propagate_wqm /\ preserve_wqm /\ Has(r.block_needs, WQM)
                 THEN Preserve_WQM ELSE needs1
        c3 == IF needs = WQM /\ instr.opcode = "p_phi"
              THEN MarkPredsWqm(c2, bs, block.logical_preds, 1) ELSE c2
    IN  [ctx |-> c3,
         instr_needs |-> [r.instr_needs EXCEPT ![i] = needs],
         block_needs |-> r.block_needs \cup needs]

RECURSIVE BlockNeedsLoop(_, _, _, _)
BlockNeedsLoop(r, bs, block_idx, i) ==
    IF i < 1 \/ r.ctx.failed THEN r
    ELSE BlockNeedsLoop(BlockNeedsStep(r, bs, block_idx, i), bs, block_idx, i - 1)

\* lines 165-215: the new wqm_ctx and block_info
get_block_needs(ctx, binfo, bs, block_idx) ==
    LET block == Blk(bs, block_idx)
        n == Len(block.instructions)
        r == BlockNeedsLoop([ctx |-> ctx,
                             instr_needs |-> [i \in 1..n |-> Unspecified],
                             block_needs |-> binfo.block_needs],
                            bs, block_idx, n)
        c == IF Has(r.block_needs, WQM) /\ ~Has(block.kind, block_kind_top_level)
             THEN MarkPredsWqm(r.ctx, bs, block.logical_preds, 1)
             ELSE r.ctx
    IN  [ctx |-> c,
         info |-> [binfo EXCEPT !.instr_needs = r.instr_needs,
                                !.block_needs = r.block_needs]]

RECURSIVE EverAgainLoop(_, _, _, _)
\* lines 229-253, from block i down to block 0
EverAgainLoop(inf, bs, i, ever_again_needs) ==
    IF i < 0 \/ i >= Len(inf) THEN inf
    ELSE LET block == Blk(bs, i)
             discards == Has(block.kind, block_kind_discard)
                         \/ Has(block.kind, block_kind_uses_discard_if)
             n1 == Blk(inf, i).block_needs
                   \cup (IF Has(block.kind, block_kind_needs_lowering)
                         THEN Exact ELSE {})
             n2 == n1 \cup (IF discards /\ Has(ever_again_needs, WQM)
                            THEN Preserve_WQM ELSE {})
             e1 == ever_again_needs \cup n2
                   \cup (IF discards THEN Exact ELSE {})
             top == Has(block.kind, block_kind_top_level)
             e2 == IF top THEN e1 \ Preserve_WQM ELSE e1
             n3 == IF top THEN n2 ELSE n2 \ Preserve_WQM
         IN  EverAgainLoop([inf EXCEPT ![i + 1].ever_again_needs = ever_again_needs,
                                       ![i + 1].block_needs = n3],
                           bs, i - 1, e2)
-----------------------------------------------------------------------------
(* The rewrite. What process_block and its callees write while they work   *)
(* on one block is threaded through a record c:                            *)
(*   exec        ctx.info[idx].exec, the mask stack of the block           *)
(*   out         the instructions the Builder has inserted                 *)
(*   id          Program::allocationID                                      *)
(*   handle_wqm  ctx.handle_wqm        loop   ctx.loop                      *)
(*   blocks      Program::blocks       i      the index add_coupling_code  *)
(*                                            returns                      *)
(*   failed      an assertion failed, or a vector was read out of range    *)
(*   coupled     the mask stack add_coupling_code left                     *)
(*   joined      the mask stack of a merge block after line 498            *)
(*   merged      the mask stack lines 414-436 or 466-488 build from the    *)
(*               predecessors                                              *)
(*   stray       what a read past the end of a mask stack gives            *)
(*   calls       the calls of transition_to_WQM and transition_to_Exact    *)
(*   coupled_wqm ctx.handle_wqm as add_coupling_code left it               *)
(*   off         the mask stack at the point handle_wqm was set to false   *)
(*   jump        the mask stack before and after the lowering of a break   *)
(*               or continue, and the condition of its branch              *)
(*   discard     the mask stack before and after the p_discard_if of a     *)
(*               block of kind discard                                     *)
(*   discard_if  the same for each p_discard_if of the block               *)
(*   branched    the same for the branch of a block of kind branch or      *)
(*               invert                                                    *)
(* Temps get their ids in the order the source text asks for them.         *)

Slot(t, type) == [first |-> t, second |-> type]

\* operator[] of std::vector past the end is undefined: the read traps, or
\* it gives the Temp whose id the memory behind the vector holds (here no
\* Temp at all, or the first Temp of the program)
Trap == -1
StrayReads == {Trap, NoTemp, 1}

Emit(c, instr) == [c EXCEPT !.out = Append(@, instr)]
Fail(c) == [c EXCEPT !.failed = TRUE]
SetBack(c, t) == [c EXCEPT !.exec[Len(c.exec)].first = t]
Push(c, t, type) == [c EXCEPT !.exec = Append(@, Slot(t, type))]
Pop(c) == [c EXCEPT !.exec = Front(@)]

\* bld.pseudo(p_parallelcopy, bld.def(s2, exec), src), stored in the back
\* slot; back() of an empty stack is a read out of range
RestoreToExec(c) ==
    IF c.failed \/ c.exec = <<>> THEN Fail(c)
    ELSE SetBack(Emit([c EXCEPT !.id = c.id + 1],
                      Ins("p_parallelcopy", "PSEUDO", <<DefFixed(c.id + 1, exec)>>,
                          <<Op(Last(c.exec).first)>>)), c.id + 1)

\* bld.sop1(s_wqm_b64, bld.def(s2, exec), bld.def(s1, scc), bld.exec(src)),
\* pushed with `type`
PushWqm(c, src, type) ==
    Push(Emit([c EXCEPT !.id = c.id + 2],
              Ins("s_wqm_b64", "SOP1",
                  <<DefFixed(c.id + 1, exec), DefFixed(c.id + 2, scc)>>,
                  <<OpFixed(src, exec)>>)),
         c.id + 1, type)

\* lines 269-271 and 280-282: after the pop, back() has to be of `type`
RestoreAfterPop(c, type) ==
    IF c.exec = <<>> \/ ~Has(Last(c.exec).second, type) THEN Fail(c)
    ELSE RestoreToExec(c)

\* what a call of transition_to_WQM or transition_to_Exact did: c is the
\* record it was called with, d the record it returned
Call(c, d, to) ==
    [to |-> to, before |-> c.exec, after |-> d.exec,
     emitted |-> Len(d.out) - Len(c.out), failed |-> d.failed]
Called(c, d, to) == [d EXCEPT !.calls = Append(@, Call(c, d, to))]

\* a slip in lines 261-266: the mask of the quads is not pushed
WqmInPlace(c) ==
    [PushWqm(c, Last(c.exec).first, mask_type_global \cup mask_type_wqm)
        EXCEPT !.exec = Front(@)]

\* lines 261-266
WqmOfGlobal(c) ==
    PushWqm(c, Last(c.exec).first, mask_type_global \cup mask_type_wqm)

\* lines 257-272
transition_to_WQM(c) ==
    IF c.failed THEN c
    ELSE Called(c,
                IF c.exec = <<>> THEN Fail(c)
                ELSE IF Has(Last(c.exec).second, mask_type_wqm) THEN c
                ELSE IF Has(Last(c.exec).second, mask_type_global)
                THEN WqmOfGlobal(c)
                ELSE RestoreAfterPop(Pop(c), mask_type_wqm),
                WQM)

\* lines 286-291: the exact mask is created and pushed
PushExact(c) ==
    Push(SetBack(Emit([c EXCEPT !.id = c.id + 3],
                      Ins("s_and_saveexec_b64", "SOP1",
                          <<Def(c.id + 2), DefFixed(c.id + 3, scc),
                            DefFixed(c.id + 1, exec)>>,
                          <<Op(c.exec[1].first),
                            OpFixed(Last(c.exec).first, exec)>>)),
                 c.id + 2),
         c.id + 1, mask_type_exact)

\* lines 274-292
transition_to_Exact(c) ==
    IF c.failed THEN c
    ELSE Called(c,
                IF c.exec = <<>> THEN Fail(c)
                ELSE IF Has(Last(c.exec).second, mask_type_exact) THEN c
                ELSE IF Has(Last(c.exec).second, mask_type_global)
                THEN RestoreAfterPop(Pop(c), mask_type_exact)
                ELSE PushExact(c),
                Exact)

\* lines 308-317, c holding the moved p_startpgm
StartMasks(c, exec_mask, start_needs, needs_wqm_) ==
    IF c.handle_wqm
    THEN IF start_needs = WQM
         THEN transition_to_WQM(Push(c, exec_mask,
                                     mask_type_global \cup mask_type_exact))
         ELSE Push(c, exec_mask, mask_type_global \cup mask_type_exact)
    ELSE IF needs_wqm_ THEN PushWqm(c, exec_mask, mask_type_global)
         ELSE Push(c, exec_mask, mask_type_global)

\* lines 302-320: the start block
CoupleStart(c, inf, block, needs_wqm_) ==
    StartMasks([Emit(c, block.instructions[1]) EXCEPT
                   !.i = 1,
                   !.failed = c.failed
                       \/ block.instructions[1].opcode # "p_startpgm"],
               Last(block.instructions[1].definitions).id,
               Blk(inf, 0).block_needs, needs_wqm_)

\* an operand create_instruction left unset
UnsetOp == Op(NoTemp)

\* create_instruction(p_linear_phi, PSEUDO, n, 1) with operand 0 set
HeaderPhi(def, first, n) ==
    Ins("p_linear_phi", "PSEUDO", <<def>>,
        [k \in 1..n |-> IF k = 1 THEN Op(first) ELSE UnsetOp])

RECURSIVE OuterPhis(_, _, _, _)
\* lines 330-337: ssa names for the outer exec masks, slots i .. n - 1
\* (counted from 1)
OuterPhis(c, pre_exec, npreds, i) ==
    IF i > Len(c.exec) - 1 THEN c
    ELSE OuterPhis([Emit(c, HeaderPhi(Def(c.id + 1), pre_exec[i].first, npreds))
                      EXCEPT !.id = c.id + 1, !.exec[i].first = c.id + 1],
                   pre_exec, npreds, i + 1)

RECURSIVE MoveUntilLogicalStart(_, _)
\* while (block->instructions[i]->opcode != p_logical_start) insert, i++
MoveUntilLogicalStart(c, block) ==
    IF c.i + 1 > Len(block.instructions) THEN Fail(c)
    ELSE IF block.instructions[c.i + 1].opcode = "p_logical_start" THEN c
    ELSE MoveUntilLogicalStart(
             [Emit(c, block.instructions[c.i + 1]) EXCEPT !.i = c.i + 1], block)

\* lines 325-338
HeaderOuter(c, pre_exec, npreds) ==
    IF Last(c.loop).has_discard
    THEN OuterPhis([c EXCEPT !.exec = pre_exec, !.i = 0,
                             !.failed = c.failed \/ Len(pre_exec)
                                            # Last(c.loop).num_exec_masks],
                   pre_exec, npreds, 1)
    ELSE [c EXCEPT !.exec = pre_exec, !.i = 0,
                   !.failed = c.failed \/ Len(pre_exec)
                                  # Last(c.loop).num_exec_masks]

\* lines 340-347: ssa name for the restore mask
HeaderRestore(c, pre_exec, npreds) ==
    IF Last(c.loop).has_divergent_break
    THEN SetBack(Emit([c EXCEPT !.id = c.id + 1],
                      HeaderPhi(Def(c.id + 1), Last(pre_exec).first, npreds)),
                 c.id + 1)
    ELSE c

\* a slip in lines 358-364: the loop active mask always replaces the top
HeaderActiveInPlace(c, pre_exec, npreds) ==
    [SetBack(Emit([c EXCEPT !.id = c.id + 1],
                  HeaderPhi(IF Last(c.loop).has_divergent_continue
                            THEN Def(c.id + 1) ELSE DefFixed(c.id + 1, exec),
                            Last(pre_exec).first, npreds)),
             c.id + 1)
       EXCEPT !.exec[Len(c.exec)].second = @ \cup mask_type_loop]

\* lines 349-364: ssa name for the loop active mask
HeaderActive(c, pre_exec, npreds) ==
    IF Last(c.loop).has_divergent_break
    THEN Push(Emit([c EXCEPT !.id = c.id + 1],
                   HeaderPhi(IF Last(c.loop).has_divergent_continue
                             THEN Def(c.id + 1) ELSE DefFixed(c.id + 1, exec),
                             Last(pre_exec).first, npreds)),
              c.id + 1,
              (Last(c.exec).second \ mask_type_global) \cup mask_type_loop)
    ELSE [SetBack(Emit([c EXCEPT !.id = c.id + 1],
                       HeaderPhi(IF Last(c.loop).has_divergent_continue
                                 THEN Def(c.id + 1) ELSE DefFixed(c.id + 1, exec),
                                 Last(pre_exec).first, npreds)),
                  c.id + 1)
            EXCEPT !.exec[Len(c.exec)].second = @ \cup mask_type_loop]

\* lines 373-375, c being at p_logical_start
PushActiveCopy(c) ==
    IF c.failed THEN c
    ELSE Push(Emit([c EXCEPT !.id = c.id + 1],
                   Ins("p_parallelcopy", "PSEUDO", <<DefFixed(c.id + 1, exec)>>,
                       <<Op(Last(c.exec).first)>>)),
              c.id + 1,
              Last(c.exec).second \cap (mask_type_wqm \cup mask_type_exact))

\* a slip in line 368: the copy is pushed for every loop
HeaderContinueAlways(c, block) ==
    PushActiveCopy(MoveUntilLogicalStart(c, block))

\* lines 366-376: a parallelcopy moves the active mask to exec
HeaderContinue(c, block) ==
    IF Last(c.loop).has_divergent_continue
    THEN PushActiveCopy(MoveUntilLogicalStart(c, block))
    ELSE c

\* lines 323-379: the loop entry block
CoupleLoopHeader(c, inf, block, idx) ==
    IF block.linear_preds[1] # idx - 1 \/ c.loop = <<>>
       \/ Blk(inf, idx - 1).exec = <<>>
    THEN Fail(c)
    ELSE HeaderContinue(
             HeaderActive(
                 HeaderRestore(
                     HeaderOuter(c, Blk(inf, idx - 1).exec,
                                 Len(block.linear_preds)),
                     Blk(inf, idx - 1).exec, Len(block.linear_preds)),
                 Blk(inf, idx - 1).exec, Len(block.linear_preds)),
             block)

\* off is the stack the coupling code ends the handling with
EndedWith(c) == IF c.handle_wqm THEN c ELSE [c EXCEPT !.off = c.exec]

\* lines 446-452 and 502-508: WQM handling ends
HandleWqmOff(c, binfo, block) ==
    IF /\ Has(block.kind, block_kind_top_level)
       /\ Len(c.exec) = 2
       /\ binfo.block_needs \cup binfo.ever_again_needs \in {{}, Exact}
    THEN [c EXCEPT !.exec[Len(c.exec)].second = @ \cup mask_type_global,
                   !.handle_wqm = FALSE]
    ELSE c

\* lines 453-456 and 509-512
TransitionToNeeds(c, binfo) ==
    IF binfo.block_needs = WQM THEN transition_to_WQM(c)
    ELSE IF binfo.block_needs = Exact THEN transition_to_Exact(c)
    ELSE c

\* lines 445-457 and 500-513: try to satisfy the block's needs
SatisfyNeeds(c, binfo, block) ==
    IF ~c.handle_wqm THEN c
    ELSE EndedWith(TransitionToNeeds(HandleWqmOff(c, binfo, block), binfo))

\* the masks of block b's stack as a read of slot `slot` (counted from 0)
\* finds them: past the end of the vector the read is out of range, and
\* gives whatever c.stray says
SlotRead(c, inf, b, slot) ==
    IF slot + 1 <= Len(Blk(inf, b).exec) THEN Blk(inf, b).exec[slot + 1].first
    ELSE c.stray

\* lines 396-399, 403-404, 409-410: operands 1.. of the phi that is
\* instruction k of the loop header get slot `slot` of the header's
\* predecessors (k and slot count from 0)
FillHeaderPhi(c, inf, hdr, k, slot) ==
    IF k + 1 > Len(Blk(c.blocks, hdr).instructions) THEN Fail(c)
    ELSE IF \/ Blk(c.blocks, hdr).instructions[k + 1].opcode # "p_linear_phi"
            \/ \E i \in 2..Len(Blk(c.blocks, hdr).instructions[k + 1].operands) :
                  \/ i > Len(Blk(c.blocks, hdr).linear_preds)
                  \/ SlotRead(c, inf, Blk(c.blocks, hdr).linear_preds[i], slot)
                         = Trap
    THEN Fail(c)
    ELSE [c EXCEPT !.blocks[hdr + 1].instructions[k + 1].operands =
             [i \in 1..Len(@) |->
                IF i = 1 THEN @[1]
                ELSE Op(SlotRead(c, inf, Blk(c.blocks, hdr).linear_preds[i],
                                 slot))]]

RECURSIVE FillOuterPhis(_, _, _, _, _)
FillOuterPhis(c, inf, hdr, k, n) ==
    IF c.failed \/ k >= n - 1 THEN c
    ELSE FillOuterPhis(FillHeaderPhi(c, inf, hdr, k, k), inf, hdr, k + 1, n)

\* a slip in lines 427-434: the mask of the first predecessor is taken
ExitPhiElided(c, inf, preds, k, type) ==
    Push(c, Blk(inf, preds[1]).exec[k].first, type)

\* lines 429-433: the phi for the loop footer, slot k (counted from 1)
ExitPhi(c, inf, preds, k, type) ==
    Push(Emit([c EXCEPT !.id = c.id + 1],
              Ins("p_linear_phi", "PSEUDO", <<Def(c.id + 1)>>,
                  [i \in 1..Len(preds) |-> Op(Blk(inf, preds[i]).exec[k].first)])),
         c.id + 1, type)

\* a slip in line 417: the kind is taken from the first path into the exit
ExitSlotTypeOfPred(inf, preds, header_preds, k) ==
    Blk(inf, preds[1]).exec[k].second

\* line 417: the kind of slot k (counted from 1) of the loop exit block
ExitSlotType(inf, preds, header_preds, k) ==
    Blk(inf, header_preds[1]).exec[k].second

RECURSIVE ExitPhis(_, _, _, _, _, _)
\* lines 414-436: the loop exit phis, slots k .. n (counted from 1)
ExitPhis(c, inf, preds, header_preds, k, n) ==
    IF c.failed \/ k > n THEN c
    ELSE ExitPhis(
             IF \A i \in 2..Len(preds) :
                    Blk(inf, preds[i]).exec[k].first
                        = Blk(inf, preds[1]).exec[k].first
             THEN Push(c, Blk(inf, preds[1]).exec[k].first,
                       ExitSlotType(inf, preds, header_preds, k))
             ELSE ExitPhi(c, inf, preds, k,
                          ExitSlotType(inf, preds, header_preds, k)),
             inf, preds, header_preds, k + 1, n)

\* the stack as line 488 finds it, and line 437 in a loop exit block
Merged(c) == [c EXCEPT !.merged = c.exec]

\* lines 390-401: the phis of the outer masks
ExitFillOuter(c, inf) ==
    IF Last(c.loop).has_discard
    THEN FillOuterPhis(c, inf, Last(c.loop).loop_header, 0,
                       Last(c.loop).num_exec_masks)
    ELSE c

\* lines 402-405: the phi of the restore mask, or of the active mask of a
\* loop without divergent break
ExitFillRestore(c, inf) ==
    FillHeaderPhi(c, inf, Last(c.loop).loop_header,
                  IF Last(c.loop).has_discard
                  THEN Last(c.loop).num_exec_masks - 1 ELSE 0,
                  Last(c.loop).num_exec_masks - 1)

\* lines 407-412: the phi of the active mask
ExitFillActive(c, inf) ==
    IF Last(c.loop).has_divergent_break
    THEN FillHeaderPhi(c, inf, Last(c.loop).loop_header,
                       (IF Last(c.loop).has_discard
                        THEN Last(c.loop).num_exec_masks - 1 ELSE 0) + 1,
                       Last(c.loop).num_exec_masks)
    ELSE c

\* lines 459-462
ExitRestore(c) ==
    [RestoreToExec(c) EXCEPT !.loop = Front(@)]

\* lines 387-388 and the reads of lines 416-417
ExitDeepEnough(c, inf, preds) ==
    /\ preds # <<>>
    /\ \A i \in 1..Len(preds) :
           Len(Blk(inf, preds[i]).exec) >= Last(c.loop).num_exec_masks
    /\ Len(Blk(inf, Blk(c.blocks, Last(c.loop).loop_header).linear_preds[1]).exec)
           >= Last(c.loop).num_exec_masks

\* lines 382-464: the loop exit block
CoupleLoopExit(c, inf, block, idx) ==
    IF c.loop = <<>> THEN Fail(c)
    ELSE IF ~ExitDeepEnough(c, inf, block.linear_preds) THEN Fail(c)
    ELSE ExitRestore(
             SatisfyNeeds(
                 MoveUntilLogicalStart(
                     Merged(ExitPhis(
                         [ExitFillActive(ExitFillRestore(ExitFillOuter(c, inf),
                                                         inf), inf)
                             EXCEPT !.exec = <<>>, !.i = 0],
                         inf, block.linear_preds,
                         Blk(c.blocks, Last(c.loop).loop_header).linear_preds,
                         1, Last(c.loop).num_exec_masks)),
                     block),
                 Blk(inf, idx), block))

\* a slip in lines 481-486: the first predecessor's mask is taken, no phi
MergePhiElided(c, e0, e1, in_exec, i) ==
    Push(c, e0[i].first, e0[i].second \cap e1[i].second)

\* a slip in lines 482-484: the operands are taken in the other order
MergePhiSwapped(c, e0, e1, in_exec, i) ==
    Push(Emit([c EXCEPT !.id = c.id + 1],
              Ins("p_linear_phi", "PSEUDO",
                  <<IF in_exec THEN DefFixed(c.id + 1, exec) ELSE Def(c.id + 1)>>,
                  <<Op(e1[i].first), Op(e0[i].first)>>)),
         c.id + 1, e0[i].second \cap e1[i].second)

\* lines 481-486: the phi of slot i (counted from 1)
MergePhi(c, e0, e1, in_exec, i) ==
    Push(Emit([c EXCEPT !.id = c.id + 1],
              Ins("p_linear_phi", "PSEUDO",
                  <<IF in_exec THEN DefFixed(c.id + 1, exec) ELSE Def(c.id + 1)>>,
                  <<Op(e0[i].first), Op(e1[i].first)>>)),
         c.id + 1, e0[i].second \cap e1[i].second)

RECURSIVE MergePhis(_, _, _, _, _, _)
\* lines 475-487: phis for the diverged exec masks, slots i .. n (from 1)
MergePhis(c, e0, e1, in_exec_last, i, n) ==
    IF c.failed \/ i > n THEN c
    ELSE MergePhis(
             IF e0[i].first = e1[i].first
             THEN [Push(c, e0[i].first, e0[i].second) EXCEPT
                      !.failed = c.failed \/ e0[i].second # e1[i].second]
             ELSE MergePhi(c, e0, e1, i = n /\ in_exec_last, i),
             e0, e1, in_exec_last, i + 1, n)

MinLen(e0, e1) == IF Len(e0) <= Len(e1) THEN Len(e0) ELSE Len(e1)

\* lines 466-488: the masks of the predecessors
OtherMasks(c, inf, block) ==
    IF Len(block.linear_preds) = 1
    THEN [c EXCEPT !.exec = Blk(inf, block.linear_preds[1]).exec, !.i = 0]
    ELSE IF Len(block.linear_preds) # 2 THEN Fail(c)
    ELSE Merged(MergePhis([c EXCEPT !.i = 0],
                          Blk(inf, block.linear_preds[1]).exec,
                          Blk(inf, block.linear_preds[2]).exec,
                          ~Has(block.kind, block_kind_merge), 1,
                          MinLen(Blk(inf, block.linear_preds[1]).exec,
                                 Blk(inf, block.linear_preds[2]).exec)))

RECURSIVE MovePhis(_, _)
\* lines 490-495
MovePhis(c, block) ==
    IF c.i + 1 > Len(block.instructions) THEN Fail(c)
    ELSE IF block.instructions[c.i + 1].opcode \notin {"p_phi", "p_linear_phi"}
    THEN c
    ELSE MovePhis([Emit(c, block.instructions[c.i + 1]) EXCEPT !.i = c.i + 1],
                  block)

\* a slip in lines 497-498: the mask of the region stays on the stack
PopMergeForgotten(c, block) == [c EXCEPT !.joined = c.exec]

\* lines 497-498
PopMerge(c, block) ==
    IF ~Has(block.kind, block_kind_merge) THEN c
    ELSE IF c.exec = <<>> THEN Fail(c)
    ELSE [Pop(c) EXCEPT !.joined = Front(c.exec)]

\* lines 515-518
RestoreMerge(c, block) ==
    IF Has(block.kind, block_kind_merge) THEN RestoreToExec(c) ELSE c

\* lines 466-520: every other block
CoupleOther(c, inf, block, idx) ==
    RestoreMerge(
        SatisfyNeeds(PopMerge(MovePhis(OtherMasks(c, inf, block), block), block),
                     Blk(inf, idx), block),
        block)

\* lines 294-521
add_coupling_code(c, inf, block, idx, needs_wqm_) ==
    IF idx = 0 THEN CoupleStart(c, inf, block, needs_wqm_)
    ELSE IF Has(block.kind, block_kind_loop_header)
    THEN CoupleLoopHeader(c, inf, block, idx)
    ELSE IF Has(block.kind, block_kind_loop_exit)
    THEN CoupleLoopExit(c, inf, block, idx)
    ELSE CoupleOther(c, inf, block, idx)

\* lines 600-612 and 760-769: a p_discard_if that narrows the first num
\* masks of the stack; the last of them is in exec when fix_last
DiscardInstr(c, num, fix_last, cond) ==
    Ins("p_discard_if", "PSEUDO",
        [i \in 1..(num + 1) |->
           IF i = num + 1 THEN DefFixed(c.id + num + 1, scc)
           ELSE IF fix_last /\ i = num THEN DefFixed(c.id + i, exec)
           ELSE Def(c.id + i)],
        [i \in 1..(num + 1) |->
           IF i = num + 1 THEN cond
           ELSE IF fix_last /\ i = num THEN OpFixed(c.exec[i].first, exec)
           ELSE Op(c.exec[i].first)])

\* the first num masks get their new names; exec[i] beyond the stack and
\* exec[0] of an empty stack are reads out of range
DiscardMasks(c, num, fix_last, cond) ==
    IF c.failed \/ c.exec = <<>> \/ num > Len(c.exec) THEN Fail(c)
    ELSE [Emit(c, DiscardInstr(c, num, fix_last, cond)) EXCEPT
             !.id = c.id + num + 1,
             !.exec = [i \in 1..Len(c.exec) |->
                         IF i <= num THEN Slot(c.id + i, c.exec[i].second)
                         ELSE c.exec[i]],
             !.failed = Has(c.exec[1].second, mask_type_wqm)]

\* line 595
DropGlobal(c) ==
    IF c.failed \/ c.exec = <<>> THEN Fail(c)
    ELSE [c EXCEPT !.exec[Len(c.exec)].second = @ \ mask_type_global]

\* lines 592-596
DiscardPreserveWqm(c, binfo, block) ==
    IF Has(binfo.block_needs, Preserve_WQM)
    THEN DropGlobal(transition_to_WQM(
             [c EXCEPT !.failed = ~Has(block.kind, block_kind_top_level)]))
    ELSE c

\* a slip in lines 597-612: the mask on top of the stack is left out
DiscardAllButTop(c, cond) ==
    IF c.exec = <<>> THEN Fail(c)
    ELSE DiscardMasks(c, Len(c.exec) - 1, FALSE, cond)

\* lines 591-612: p_discard_if gets every mask of the stack
DiscardAll(c, cond) == DiscardMasks(c, Len(c.exec), TRUE, cond)

\* what lines 597-612 did to the stack of c
DiscardedIf(c, d) ==
    [d EXCEPT !.discard_if = @ \o <<[before |-> c.exec, after |-> d.exec,
                                     in_loop |-> c.loop # <<>>,
                                     of_block |-> FALSE,
                                     outer |-> IF c.loop = <<>> THEN 0
                                               ELSE Last(c.loop).num_exec_masks]>>]

LowerDiscardIf(c, binfo, block, instr) ==
    DiscardedIf(DiscardPreserveWqm(c, binfo, block),
                DiscardAll(DiscardPreserveWqm(c, binfo, block),
                           instr.operands[1]))

\* lines 614-620
InstrTransition(c, needs) ==
    IF needs = WQM /\ c.state # WQM
    THEN [transition_to_WQM(c) EXCEPT !.state = WQM]
    ELSE IF needs = Exact /\ c.state # Exact
    THEN [transition_to_Exact(c) EXCEPT !.state = Exact]
    ELSE c

\* lines 622-635: p_is_helper
LowerIsHelper(c, dst) ==
    IF c.failed \/ c.exec = <<>> THEN Fail(c)
    ELSE IF c.state = Exact
    THEN Emit(c, Ins("s_mov_b64", "SOP1", <<dst>>, <<OpConst(0)>>))
    ELSE [Emit(c, Ins("s_andn2_b64", "SOP2", <<dst, DefFixed(c.id + 1, scc)>>,
                      <<Op(Last(c.exec).first), Op(c.exec[1].first)>>))
            EXCEPT !.id = c.id + 1,
                   !.failed = ~Has(c.exec[1].second, mask_type_exact)]

\* one iteration of the loop of lines 586-643, for instruction k (from 0)
ProcessInstr(c, binfo, block, k) ==
    IF c.failed THEN c
    ELSE IF block.instructions[k + 1].opcode = "p_discard_if"
    THEN LowerDiscardIf(c, binfo, block, block.instructions[k + 1])
    ELSE IF block.instructions[k + 1].opcode = "p_is_helper"
    THEN LowerIsHelper(
             InstrTransition(c, IF c.handle_wqm THEN binfo.instr_needs[k + 1]
                                ELSE Unspecified),
             block.instructions[k + 1].definitions[1])
    ELSE Emit(InstrTransition(c, IF c.handle_wqm THEN binfo.instr_needs[k + 1]
                                 ELSE Unspecified),
              block.instructions[k + 1])

RECURSIVE ProcessLoop(_, _, _, _)
ProcessLoop(c, binfo, block, k) ==
    IF c.failed \/ k >= Len(block.instructions) THEN c
    ELSE ProcessLoop(ProcessInstr(c, binfo, block, k), binfo, block, k + 1)

\* lines 565-568
NeedsProcessing(c, binfo, block) ==
    \/ c.handle_wqm
    \/ binfo.block_needs = WQM \cup Exact
    \/ Has(block.kind, block_kind_uses_discard_if)
    \/ Has(block.kind, block_kind_needs_lowering)

\* lines 578-584
StartState(c) ==
    IF Has(Last(c.exec).second, mask_type_wqm) THEN [c EXCEPT !.state = WQM]
    ELSE [c EXCEPT !.state = Exact,
                   !.failed = c.handle_wqm
                       /\ ~Has(Last(c.exec).second, mask_type_exact)]

\* lines 560-644; the instructions from index c.i on
process_instructions(c, binfo, block) ==
    IF c.failed \/ c.exec = <<>> THEN Fail(c)
    ELSE IF ~NeedsProcessing(c, binfo, block)
    THEN [c EXCEPT !.out = @ \o SubSeq(block.instructions, c.i + 1,
                                       Len(block.instructions))]
    ELSE ProcessLoop(StartState(c), binfo, block, c.i)

\* the branch is taken off the block ...
TakeBranch(c) ==
    IF c.failed \/ c.out = <<>> THEN Fail(c)
    ELSE [c EXCEPT !.branch = Last(c.out), !.out = Front(@)]
\* ... and put back
PutBranch(c) == IF c.failed THEN c ELSE Emit(c, c.branch)

\* line 674
AddGlobal(c) ==
    IF c.failed \/ c.exec = <<>> THEN Fail(c)
    ELSE [c EXCEPT !.exec[Len(c.exec)].second = @ \cup mask_type_global]

\* a slip in lines 663-666 and 693-696: both masks stay
KeepBoth(c) == c

\* lines 663-666 and 693-696: exec[0] = exec[1]; exec.pop_back()
KeepSecond(c) ==
    IF Len(c.exec) = 2 THEN [c EXCEPT !.exec = <<c.exec[2]>>] ELSE c

\* lines 666, 676 and 697; off is the stack the handling ends with
WqmOff(c) == [c EXCEPT !.handle_wqm = FALSE, !.off = c.exec]

\* lines 656-660
DisablePop(c) ==
    IF Len(c.exec) = 3
    THEN [Pop(c) EXCEPT !.failed = c.exec[2].second # mask_type_wqm]
    ELSE [c EXCEPT !.failed = Len(c.exec) > 2]

\* lines 662-686
DisableByNeeds(c, binfo) ==
    IF c.failed THEN c
    ELSE IF binfo.ever_again_needs = {} THEN WqmOff(KeepSecond(c))
    ELSE IF binfo.ever_again_needs = Exact
    THEN WqmOff(PutBranch(transition_to_Exact(AddGlobal(TakeBranch(c)))))
    ELSE IF Has(binfo.block_needs, Preserve_WQM)
    THEN PutBranch(DropGlobal(transition_to_WQM(TakeBranch(c))))
    ELSE c

\* lines 687-698
DisableToWqm(c, binfo) ==
    IF c.failed THEN c
    ELSE IF ~Has(binfo.ever_again_needs, Exact)
    THEN WqmOff(KeepSecond(PutBranch(transition_to_WQM(TakeBranch(c)))))
    ELSE c

\* lines 654-699: try to disable wqm handling
BranchDisableWqm(c, binfo, block) ==
    IF ~(c.handle_wqm /\ Has(block.kind, block_kind_top_level)) THEN c
    ELSE DisableToWqm(DisableByNeeds(DisablePop(c), binfo), binfo)

RECURSIVE LoopScan(_, _, _, _, _)
\* lines 709-725: the blocks of the loop from block i on; r is what the scan
\* has collected
LoopScan(r, bs, inf, i, loop_nest_depth) ==
    IF r.failed \/ i + 1 > Len(bs) THEN [r EXCEPT !.failed = TRUE]
    ELSE IF Blk(bs, i).loop_nest_depth < loop_nest_depth THEN r
    ELSE LoopScan(
             [needs |-> r.needs \cup Blk(inf, i).block_needs,
              has_discard |-> r.has_discard
                  \/ Has(Blk(bs, i).kind, block_kind_uses_discard_if)
                  \/ Has(Blk(bs, i).kind, block_kind_discard),
              has_divergent_break |-> r.has_divergent_break
                  \/ (/\ Blk(bs, i).loop_nest_depth = loop_nest_depth
                      /\ ~Has(Blk(bs, i).kind, block_kind_uniform)
                      /\ Has(Blk(bs, i).kind, block_kind_break)),
              has_divergent_continue |-> r.has_divergent_continue
                  \/ (/\ Blk(bs, i).loop_nest_depth = loop_nest_depth
                      /\ ~Has(Blk(bs, i).kind, block_kind_uniform)
                      /\ ~Has(Blk(bs, i).kind, block_kind_break)
                      /\ Has(Blk(bs, i).kind, block_kind_continue)),
              failed |-> r.failed],
             bs, inf, i + 1, loop_nest_depth)

\* lines 727-739
PreheaderTransition(c, needs) ==
    IF ~c.handle_wqm THEN c
    ELSE IF Has(needs, WQM) THEN PutBranch(transition_to_WQM(TakeBranch(c)))
    ELSE IF needs = Exact THEN PutBranch(transition_to_Exact(TakeBranch(c)))
    ELSE c

\* lines 741-746
PushLoop(c, header, r) ==
    [c EXCEPT !.failed = c.failed \/ r.failed,
              !.loop = Append(@,
                  [loop_header |-> header,
                   num_exec_masks |-> Len(c.exec),
                   needs |-> r.needs,
                   has_divergent_break |-> r.has_divergent_break,
                   has_divergent_continue |-> r.has_divergent_continue,
                   has_discard |-> r.has_discard])]

\* lines 703-725
ScanLoop(c, inf, idx) ==
    LoopScan([needs |-> {}, has_discard |-> FALSE,
              has_divergent_break |-> FALSE,
              has_divergent_continue |-> FALSE, failed |-> FALSE],
             c.blocks, inf, idx + 1, Blk(c.blocks, idx + 1).loop_nest_depth)

\* lines 701-747: collect information about the succeeding loop
BranchPreheader(c, inf, block, idx) ==
    IF c.failed \/ ~Has(block.kind, block_kind_loop_preheader) THEN c
    ELSE IF idx + 2 > Len(c.blocks) \/ block.linear_succs = <<>> THEN Fail(c)
    ELSE PushLoop(PreheaderTransition(c, ScanLoop(c, inf, idx).needs),
                  block.linear_succs[1], ScanLoop(c, inf, idx))

\* bld.sop1(s_mov_b64, bld.def(s2, exec), Operand(0u)) into the back slot
ZeroExec(c) ==
    IF c.failed \/ c.exec = <<>> THEN Fail(c)
    ELSE SetBack(Emit([c EXCEPT !.id = c.id + 1],
                      Ins("s_mov_b64", "SOP1", <<DefFixed(c.id + 1, exec)>>,
                          <<OpConst(0)>>)), c.id + 1)

Reconverges(b) ==
    Has(b.kind, block_kind_invert) \/ Has(b.kind, block_kind_merge)

\* lines 751-757
DiscardNum(c) ==
    IF c.loop # <<>> THEN Last(c.loop).num_exec_masks ELSE Len(c.exec) - 1

\* lines 776-783
DiscardZero(c, block) ==
    IF c.failed \/ block.linear_succs = <<>> THEN Fail(c)
    ELSE IF c.loop = <<>> /\ ~Reconverges(Blk(c.blocks, block.linear_succs[1]))
    THEN ZeroExec(c)
    ELSE c

\* line 771
IsBranch(c) ==
    [c EXCEPT !.failed = c.failed \/ c.branch.format # "PSEUDO_BRANCH"]

\* lines 759-769, the branch being off the block
DiscardByExec(c) ==
    IF c.failed \/ c.exec = <<>> THEN Fail(c)
    ELSE DiscardMasks(c, DiscardNum(c), FALSE, OpFixed(Last(c.exec).first, exec))

\* what lines 751-769 did to the stack of c, in a loop or not
Discarded(c, d) ==
    [d EXCEPT !.discard = <<[before |-> c.exec, after |-> d.exec,
                             in_loop |-> c.loop # <<>>, of_block |-> TRUE,
                             outer |-> IF c.loop = <<>> THEN 0
                                       ELSE Last(c.loop).num_exec_masks]>>]

\* lines 749-787: a block of kind discard
BranchDiscard(c, block) ==
    IF c.failed \/ ~Has(block.kind, block_kind_discard) THEN c
    ELSE PutBranch(
             DiscardZero(Discarded(c, DiscardByExec(IsBranch(TakeBranch(c)))),
                         block))

SetTarget(c, tgt) == [c EXCEPT !.out[Len(c.out)].target = tgt]

\* lines 789-798: a uniform block keeps its branch
BranchUniform(c, block) ==
    IF c.out = <<>> THEN Fail(c)
    ELSE IF Last(c.out).opcode = "p_branch"
    THEN IF Len(block.linear_succs) < 1 THEN Fail(c)
         ELSE SetTarget(c, <<block.linear_succs[1]>>)
    ELSE IF Len(block.linear_succs) < 2 THEN Fail(c)
         ELSE SetTarget(c, <<block.linear_succs[2], block.linear_succs[1]>>)

\* lines 802-807: return to wqm before branching
BranchReturnToWqm(c) ==
    IF c.handle_wqm /\ Has(Last(c.exec).second, mask_type_exact)
       /\ ~Has(Last(c.exec).second, mask_type_global)
    THEN Pop(c) ELSE c

\* lines 821-824: the saved exec replaces the current mask, and the
\* then-mask is the next current exec on the stack
PushThenMask(c, old_exec, then_mask, mask_type) ==
    Push(SetBack(c, old_exec), then_mask, mask_type)

\* lines 810-826, the p_cbranch_z being off the block
SaveExecAndBranch(c, block) ==
    IF c.failed \/ c.exec = <<>> \/ Len(block.linear_succs) # 2
       \/ c.branch.opcode # "p_cbranch_z"
    THEN Fail(c)
    ELSE Emit(
             PushThenMask(
                 Emit([c EXCEPT !.id = c.id + 3],
                      Ins("s_and_saveexec_b64", "SOP1",
                          <<Def(c.id + 2), DefFixed(c.id + 3, scc),
                            DefFixed(c.id + 1, exec)>>,
                          <<Op(c.branch.operands[1].id),
                            OpFixed(Last(c.exec).first, exec)>>)),
                 c.id + 2, c.id + 1,
                 Last(c.exec).second \cap (mask_type_wqm \cup mask_type_exact)),
             Branch("p_cbranch_z", <<OpFixed(c.id + 1, exec)>>,
                    <<block.linear_succs[2], block.linear_succs[1]>>))

\* what lines 810-826 and 834-844 did to the stack of c
Branched(c, d) ==
    [d EXCEPT !.branched = <<[before |-> c.exec, after |-> d.exec]>>]

\* lines 800-828: a divergent branch
BranchBranch(c, block) ==
    Branched(BranchReturnToWqm(c),
             SaveExecAndBranch(TakeBranch(BranchReturnToWqm(c)), block))

\* a slip in lines 834-844: the operands of s_andn2_b64 are exchanged
InvertExecSwapped(c, block) ==
    IF c.failed \/ Len(c.exec) < 2 \/ Len(block.linear_succs) < 2
       \/ c.branch.opcode # "p_cbranch_nz"
    THEN Fail(c)
    ELSE Emit(
             Push(Emit(Pop([c EXCEPT !.id = c.id + 2]),
                       Ins("s_andn2_b64", "SOP2",
                           <<DefFixed(c.id + 1, exec), DefFixed(c.id + 2, scc)>>,
                           <<OpFixed(Last(c.exec).first, exec),
                             Op(c.exec[Len(c.exec) - 1].first)>>)),
                  c.id + 1, Last(c.exec).second),
             Branch("p_cbranch_z", <<OpFixed(c.id + 1, exec)>>,
                    <<block.linear_succs[2], block.linear_succs[1]>>))

\* lines 834-844, the p_cbranch_nz being off the block
InvertExec(c, block) ==
    IF c.failed \/ Len(c.exec) < 2 \/ Len(block.linear_succs) < 2
       \/ c.branch.opcode # "p_cbranch_nz"
    THEN Fail(c)
    ELSE Emit(
             Push(Emit(Pop([c EXCEPT !.id = c.id + 2]),
                       Ins("s_andn2_b64", "SOP2",
                           <<DefFixed(c.id + 1, exec), DefFixed(c.id + 2, scc)>>,
                           <<Op(c.exec[Len(c.exec) - 1].first),
                             OpFixed(Last(c.exec).first, exec)>>)),
                  c.id + 1, Last(c.exec).second),
             Branch("p_cbranch_z", <<OpFixed(c.id + 1, exec)>>,
                    <<block.linear_succs[2], block.linear_succs[1]>>))

\* lines 830-846: the invert block
BranchInvert(c, block) == Branched(c, InvertExec(TakeBranch(c), block))

\* lines 856-860 and 886-890: the lanes of current_exec leave slot exec_idx
\* (counted from 0)
NarrowScope(c, exec_idx, current_exec) ==
    [Emit(c, Ins("s_andn2_b64", "SOP2",
                 <<Def(c.id + 2), DefFixed(c.id + 1, scc)>>,
                 <<Op(c.exec[exec_idx + 1].first), OpFixed(current_exec, exec)>>))
       EXCEPT !.id = c.id + 2,
              !.exec[exec_idx + 1].first = c.id + 2,
              !.cond = c.id + 1]

\* a slip in lines 855-863 and 883-891: only the slot below the top is
\* rewritten
NarrowScopesOnce(c, exec_idx, current_exec, is_break) ==
    IF exec_idx < 0 THEN c ELSE NarrowScope(c, exec_idx, current_exec)

RECURSIVE NarrowScopes(_, _, _, _)
\* lines 855-863 and 883-891: from slot exec_idx downwards; a break stops
\* after the slot of the loop, a continue before it
NarrowScopes(c, exec_idx, current_exec, is_break) ==
    IF exec_idx < 0 THEN c
    ELSE IF Has(c.exec[exec_idx + 1].second, mask_type_loop)
    THEN IF is_break THEN NarrowScope(c, exec_idx, current_exec) ELSE c
    ELSE NarrowScopes(NarrowScope(c, exec_idx, current_exec), exec_idx - 1,
                      current_exec, is_break)

\* a slip in lines 865-871 and 894-900: exec is set to 0 whatever block
\* follows
JumpZeroAlways(c, block) ==
    IF c.failed THEN c ELSE ZeroExec(c)

\* lines 865-871 and 894-900: exec is set to 0 unless the lanes that stay
\* go on in a merge or invert block
JumpZero(c, block) ==
    IF c.failed \/ Blk(c.blocks, block.linear_succs[2]).linear_succs = <<>>
    THEN Fail(c)
    ELSE IF Reconverges(Blk(c.blocks,
                Blk(c.blocks, block.linear_succs[2]).linear_succs[1]))
    THEN c
    ELSE ZeroExec(c)

\* lines 873 and 902
JumpBranch(c, block) ==
    IF c.failed THEN c
    ELSE Emit(c, Branch("p_cbranch_nz", <<OpFixed(c.cond, scc)>>,
                        <<block.linear_succs[2], block.linear_succs[1]>>))

\* line 892
CondSet(c, is_break) ==
    [c EXCEPT !.failed = c.failed \/ (~is_break /\ c.cond = NoTemp)]

\* what the loops of lines 855-863 and 883-891 did to the stack of c
Jumped(c, d, is_break) ==
    [d EXCEPT !.jump = <<[is_break |-> is_break, before |-> c.exec,
                          after |-> d.exec, cond |-> d.cond]>>]

\* lines 850-863 and 878-892, the p_branch being off the block
JumpNarrow(c, block, is_break) ==
    IF c.failed \/ c.exec = <<>> \/ Len(block.linear_succs) < 2
       \/ c.branch.opcode # "p_branch"
    THEN Fail(c)
    ELSE CondSet(Jumped(c,
                        NarrowScopes([c EXCEPT !.cond = NoTemp],
                                     Len(c.exec) - 2, Last(c.exec).first,
                                     is_break),
                        is_break),
                 is_break)

\* lines 848-875 (break) and 877-904 (continue)
BranchJump(c, block, is_break) ==
    JumpBranch(JumpZero(JumpNarrow(TakeBranch(c), block, is_break), block),
               block)

\* lines 789-904: the branch instruction by the kind of the block
BranchByKind(c, block) ==
    IF c.failed \/ c.exec = <<>> THEN Fail(c)
    ELSE IF Has(block.kind, block_kind_uniform) THEN BranchUniform(c, block)
    ELSE IF Has(block.kind, block_kind_branch) THEN BranchBranch(c, block)
    ELSE IF Has(block.kind, block_kind_invert) THEN BranchInvert(c, block)
    ELSE IF Has(block.kind, block_kind_break) THEN BranchJump(c, block, TRUE)
    ELSE IF Has(block.kind, block_kind_continue)
    THEN BranchJump(c, block, FALSE)
    ELSE c

\* lines 646-905
add_branch_code(c, inf, block, idx) ==
    IF c.failed \/ idx = Len(c.blocks) - 1 THEN c
    ELSE BranchByKind(
             BranchDiscard(
                 BranchPreheader(BranchDisableWqm(c, Blk(inf, idx), block),
                                 inf, block, idx),
                 block),
             block)

\* lines 912-915: what add_coupling_code left, and the assertion on the
\* last block
AfterCoupling(c, idx) ==
    [c EXCEPT !.coupled = c.exec, !.coupled_wqm = c.handle_wqm,
              !.failed = c.failed \/ (idx = Len(c.blocks) - 1 /\ Len(c.exec) > 2)]

\* line 923: back() of an empty stack is a read out of range
LiveOut(c) ==
    IF c.exec = <<>> THEN Fail(c) ELSE c

\* the record c process_block starts with
NewCtx(bs, lp, hw, id, stray) ==
    [exec |-> <<>>, out |-> <<>>, id |-> id, handle_wqm |-> hw, loop |-> lp,
     blocks |-> bs, i |-> 0, failed |-> FALSE, coupled |-> <<>>,
     joined |-> <<>>, merged |-> <<>>, stray |-> stray, calls |-> <<>>,
     coupled_wqm |-> hw, off |-> <<>>, jump |-> <<>>,
     discard |-> <<>>, discard_if |-> <<>>, branched |-> <<>>,
     state |-> Unspecified, branch |-> p_branch, cond |-> NoTemp]

\* lines 907-924; the record c after the block is done; stray is what a read
\* out of range of a mask stack gives
process_block(bs, inf, lp, hw, id, idx, needs_wqm_, stray) ==
    LiveOut(
        add_branch_code(
            process_instructions(
                AfterCoupling(
                    add_coupling_code(NewCtx(bs, lp, hw, id, stray), inf,
                                      Blk(bs, idx),
                                      idx, needs_wqm_),
                    idx),
                Blk(inf, idx), Blk(bs, idx)),
            inf, Blk(bs, idx), idx))

-----------------------------------------------------------------------------
(* insert_exec_mask (aco_insert_exec_mask.cpp:929-939) as a state machine *)

AnyInstr(bs, P(_)) ==
    \E i \in 1..Len(bs) : \E k \in 1..Len(bs[i].instructions) :
        P(bs[i].instructions[k])
IsWqmInstr(instr) == instr.opcode = "p_wqm"
IsExactInstr(instr) == needs_exact(instr) \/ instr.opcode = "p_discard_if"

\* Program::needs_wqm and Program::needs_exact as instruction selection
\* sets them
ProgramNeeds(bs) ==
    [needs_wqm |-> AnyInstr(bs, IsWqmInstr),
     needs_exact |-> AnyInstr(bs, IsExactInstr)
                     \/ \E i \in 1..Len(bs) : Has(bs[i].kind, block_kind_discard)]

\* exec_ctx::exec_ctx
NewInfo(bs) ==
    [i \in 1..Len(bs) |-> [exec |-> <<>>, instr_needs |-> <<>>,
                           block_needs |-> {}, ever_again_needs |-> {}]]

\* insert_exec_mask is called on one of the programs ps
InitOn(ps) ==
    /\ \E p \in ps :
          /\ blocks = p.blocks
          /\ next_id = p.allocationID
    /\ blocks_in = blocks
    /\ program_needs = ProgramNeeds(blocks)
    /\ info = NewInfo(blocks)
    /\ loop = <<>>
    /\ handle_wqm = FALSE
    /\ wqm = <<>>
    /\ em_pc = "start"
    /\ em_block = 0
    /\ coupled = [i \in 1..Len(blocks) |-> [exec |-> <<>>, joined |-> <<>>,
                                           merged |-> <<>>, calls |-> <<>>,
                                           handle_wqm |-> FALSE,
                                           off |-> <<>>, jump |-> <<>>,
                                           discard |-> <<>>,
                                           discard_if |-> <<>>,
                                           branched |-> <<>>]]
    /\ IdleCopy
    /\ IdleDce
    /\ IdleFn
    /\ IdleLower

InitExec == InitOn(ExecPrograms)

\* line 933: the demand analysis is not needed
ExecSkipNeeds ==
    /\ em_pc = "start"
    /\ ~(program_needs.needs_wqm /\ program_needs.needs_exact)
    /\ em_pc' = "blocks"
    /\ UNCHANGED <<blocks, blocks_in, next_id, program_needs, info, loop,
                   handle_wqm, wqm, em_block, coupled>>
    /\ UNCHANGED notExec

\* lines 933, 219: calculate_wqm_needs starts with every block on the worklist
ExecNeedsBegin ==
    /\ em_pc = "start"
    /\ program_needs.needs_wqm /\ program_needs.needs_exact
    /\ wqm' = NewWqmCtx(blocks, next_id)
    /\ em_pc' = "worklist"
    /\ UNCHANGED <<blocks, blocks_in, next_id, program_needs, info, loop,
                   handle_wqm, em_block, coupled>>
    /\ UNCHANGED notExec

\* get_block_needs has worked on block block_index: r is its result
NeedsDone(r, block_index) ==
    /\ wqm' = r.ctx
    /\ info' = [info EXCEPT ![block_index + 1] = r.info]
    /\ em_pc' = IF r.ctx.failed THEN "assert_failed" ELSE "worklist"

\* lines 221-227: one iteration of the worklist loop
ExecNeedsStep ==
    /\ em_pc = "worklist"
    /\ wqm.worklist # {}
    /\ NeedsDone(get_block_needs([wqm EXCEPT !.worklist = @ \ {MaxOf(wqm.worklist)}],
                                 Blk(info, MaxOf(wqm.worklist)), blocks,
                                 MaxOf(wqm.worklist)),
                 MaxOf(wqm.worklist))
    /\ UNCHANGED <<blocks, blocks_in, next_id, program_needs, loop, handle_wqm,
                   em_block, coupled>>
    /\ UNCHANGED notExec

\* lines 229-254: what is ever needed again, and handle_wqm = true
ExecNeedsEnd ==
    /\ em_pc = "worklist"
    /\ wqm.worklist = {}
    /\ info' = EverAgainLoop(info, blocks, Len(blocks) - 1, {})
    /\ handle_wqm' = TRUE
    /\ em_pc' = "blocks"
    /\ UNCHANGED <<blocks, blocks_in, next_id, program_needs, loop, wqm,
                   em_block, coupled>>
    /\ UNCHANGED notExec

\* lines 919 and 923, and what process_block leaves in ctx
BlockDone(c) ==
    /\ blocks' = IF c.failed THEN blocks
                 ELSE [c.blocks EXCEPT
                          ![em_block + 1].instructions = c.out,
                          ![em_block + 1].live_out_exec = Last(c.exec).first]
    /\ info' = [info EXCEPT ![em_block + 1].exec = c.exec]
    /\ next_id' = c.id
    /\ loop' = c.loop
    /\ handle_wqm' = c.handle_wqm
    /\ coupled' = [coupled EXCEPT ![em_block + 1] =
                                      [exec |-> c.coupled, joined |-> c.joined,
                                       merged |-> c.merged,
                                       calls |-> c.calls,
                                       handle_wqm |-> c.coupled_wqm,
                                       off |-> c.off, jump |-> c.jump,
                                       discard |-> c.discard,
                                       discard_if |-> c.discard_if,
                                       branched |-> c.branched]]
    /\ em_pc' = IF c.failed THEN "assert_failed"
                ELSE IF em_block + 1 = Len(blocks) THEN "done"
                ELSE "blocks"

\* lines 935-936: process_block on the next block
ExecProcessBlock ==
    /\ em_pc = "blocks"
    /\ em_block < Len(blocks)
    /\ \E stray \in StrayReads :
           BlockDone(process_block(blocks, info, loop, handle_wqm, next_id,
                                   em_block, program_needs.needs_wqm, stray))
    /\ em_block' = em_block + 1
    /\ UNCHANGED <<blocks_in, program_needs, wqm>>
    /\ UNCHANGED notExec

NextExec ==
    \/ ExecSkipNeeds
    \/ ExecNeedsBegin
    \/ ExecNeedsStep
    \/ ExecNeedsEnd
    \/ ExecProcessBlock

SpecExec == InitExec /\ [][NextExec]_vars

\* calculate_wqm_needs alone (line 933), on the shaders of at most
\* NeedsStmts statements; the loop of lines 221-227 runs on as nothing else
\* is scheduled
NeedsStmts == 3

NeedsPrograms ==
    {p \in {BuildProgram(ss) : ss \in Lists(NeedsStmts, FALSE, FALSE)} :
        WellFormed(p)}

InitNeeds == InitOn(NeedsPrograms)

NextNeeds ==
    \/ ExecSkipNeeds
    \/ ExecNeedsBegin
    \/ ExecNeedsStep
    \/ ExecNeedsEnd

\* what the iteration of lines 221-227 that is due makes of wqm and of
\* the block_info of its block
NeedsStepDue ==
    get_block_needs([wqm EXCEPT !.worklist = @ \ {MaxOf(wqm.worklist)}],
                    Blk(info, MaxOf(wqm.worklist)), blocks, MaxOf(wqm.worklist))

\* ENABLED <<NextNeeds>>_vars, written out: a step of calculate_wqm_needs
\* is due and changes the state
NeedsCanStep ==
    \/ em_pc = "start"
    \/ /\ em_pc = "worklist"
       /\ \/ wqm.worklist = {}
          \/ NeedsStepDue.ctx # wqm
          \/ NeedsStepDue.info # Blk(info, MaxOf(wqm.worklist))

\* WF_vars(NextNeeds), with NeedsCanStep for ENABLED <<NextNeeds>>_vars and
\* any step for a NextNeeds step, as [][NextNeeds]_vars allows no other
NeedsFair == []<>(~NeedsCanStep) \/ []<><<TRUE>>_vars

SpecNeeds == InitNeeds /\ [][NextNeeds]_vars /\ NeedsFair
-----------------------------------------------------------------------------
(* What the claims about insert_exec_mask speak of *)

\* process_block has finished block b (counted from 0)
Done(b) ==
    b < em_block - (IF em_pc = "assert_failed" THEN 1 ELSE 0)

BlockIds == {i - 1 : i \in 1..Len(blocks)}

LinearPred(b, k) == Blk(blocks, b).linear_preds[k]

\* the block of kind branch that opens the if/else region merge block m closes
BranchOf(m) == LinearPred(LinearPred(LinearPred(LinearPred(m, 2), 1), 2), 1)
InvertOf(m) == LinearPred(LinearPred(m, 2), 1)

IsMerge(b) == Has(Blk(blocks, b).kind, block_kind_merge)

\* the instruction of the program that defines Temp t fixes it to exec
FixedToExec(t) ==
    \E i \in 1..Len(blocks) : \E k \in 1..Len(blocks[i].instructions) :
        \E d \in 1..Len(blocks[i].instructions[k].definitions) :
            /\ blocks[i].instructions[k].definitions[d].id = t
            /\ blocks[i].instructions[k].definitions[d].reg = exec

\* the p_linear_phi instructions of block b
LinearPhis(b) ==
    {k \in 1..Len(Blk(blocks, b).instructions) :
        Blk(blocks, b).instructions[k].opcode = "p_linear_phi"}

\* the number of enclosing if/else regions and loops of merge block m:
\* blocks of kind branch or loop_header before m minus those closed
Opened(m, k) ==
    Cardinality({b \in BlockIds : b < m /\ Has(Blk(blocks, b).kind, k)})
Nesting(m) ==
    Opened(m, block_kind_branch) + Opened(m, block_kind_loop_header)
    - Opened(m, block_kind_merge) - Opened(m, block_kind_loop_exit)

IsHeader(b) == Has(Blk(blocks, b).kind, block_kind_loop_header)

\* the blocks of the loop with header h: up to the first block of a smaller
\* loop nesting depth
LoopBlocks(h) ==
    {b \in BlockIds :
        /\ b >= h
        /\ \A x \in h..b : Blk(blocks_in, x).loop_nest_depth
                                >= Blk(blocks_in, h).loop_nest_depth}

\* a block of the loop's own nesting depth that is not uniform and of kind k
OwnDivergent(h, k) ==
    \E b \in LoopBlocks(h) :
        /\ Blk(blocks_in, b).loop_nest_depth = Blk(blocks_in, h).loop_nest_depth
        /\ ~Has(Blk(blocks_in, b).kind, block_kind_uniform)
        /\ Has(Blk(blocks_in, b).kind, k)

HasDivergentBreak(h) == OwnDivergent(h, block_kind_break)
HasDivergentContinue(h) ==
    \E b \in LoopBlocks(h) :
        /\ Blk(blocks_in, b).loop_nest_depth = Blk(blocks_in, h).loop_nest_depth
        /\ ~Has(Blk(blocks_in, b).kind, block_kind_uniform)
        /\ ~Has(Blk(blocks_in, b).kind, block_kind_break)
        /\ Has(Blk(blocks_in, b).kind, block_kind_continue)

\* block h holds a p_linear_phi that defines Temp t from Temp pre on the
\* edge from the preheader
HeaderPhiOf(h, t, pre) ==
    \E k \in 1..Len(Blk(blocks, h).instructions) :
        /\ Blk(blocks, h).instructions[k].opcode = "p_linear_phi"
        /\ Blk(blocks, h).instructions[k].definitions[1].id = t
        /\ Blk(blocks, h).instructions[k].operands[1].id = pre

\* the stack slots in which the two linear predecessors of block m differ
DivergedSlots(m) ==
    {i \in 1..MinLen(Blk(info, LinearPred(m, 1)).exec,
                     Blk(info, LinearPred(m, 2)).exec) :
        Blk(info, LinearPred(m, 1)).exec[i].first
            # Blk(info, LinearPred(m, 2)).exec[i].first}

\* the shader is one if/else region on a divergent condition
Diamond ==
    /\ Cardinality({b \in BlockIds : Has(Blk(blocks_in, b).kind, block_kind_branch)}) = 1
    /\ \A b \in BlockIds : ~Has(Blk(blocks_in, b).kind, block_kind_loop_header)
-----------------------------------------------------------------------------
(* Claims about insert_exec_mask *)

\* C2 (as amended): mask-stack balance.  For every divergent if/else
\* region, also nested to depth 3 or more, the pops on the way from
\* the branch block to the merge block equal the pushes: once the coupling
\* code of the merge block has popped the mask of the region (lines 497-498),
\* the stack is as deep as the stack of the branch block was before branch
\* lowering pushed the then-mask.  The transition to the granularity the
\* merge block needs follows that pop and may push or pop one more mask.
C2_MaskStackBalance ==
    \A m \in BlockIds :
        (Done(m) /\ IsMerge(m)) =>
            Len(coupled[m + 1].joined) = Len(Blk(info, BranchOf(m)).exec) - 1

\* a merge block nested inside three other regions is done
C2_Witness ==
    \E m \in BlockIds : Done(m) /\ IsMerge(m) /\ Nesting(m) >= 4

\* C2 as stated: the depth after the merge block's coupling code equals the
\* depth of the branch block before the then-mask was pushed
C2_DepthAfterCouplingCode ==
    \A m \in BlockIds :
        (Done(m) /\ IsMerge(m)) =>
            Len(coupled[m + 1].exec) = Len(Blk(info, BranchOf(m)).exec) - 1

\* C6: at the end of every block the current execution mask, the top of
\* the block's mask stack stored as live_out_exec, is defined by an
\* instruction that fixes the definition to the exec register
C6_LiveOutFixedToExec ==
    \A b \in BlockIds : Done(b) => FixedToExec(Blk(blocks, b).live_out_exec)

\* C9 (as amended): in a shader that is one if/else region on a divergent
\* condition, the join block gets one p_linear_phi over exec masks for each
\* stack slot in which its two linear predecessors end with different
\* masks, and none when they end with the same masks
C9_PhiPerDivergedSlot ==
    Diamond =>
        \A m \in BlockIds :
            (Done(m) /\ IsMerge(m)) =>
                Cardinality(LinearPhis(m)) = Cardinality(DivergedSlots(m))

\* the join block of a diamond is done and its predecessors differ in a slot
C9_Witness ==
    /\ Diamond
    /\ \E m \in BlockIds :
          Done(m) /\ IsMerge(m) /\ Cardinality(DivergedSlots(m)) >= 1

\* C9 as stated: exactly one p_linear_phi at the join block
C9_ExactlyOnePhi ==
    Diamond =>
        \A m \in BlockIds :
            (Done(m) /\ IsMerge(m)) => Cardinality(LinearPhis(m)) = 1

\* C10: the header of a loop with a non-uniform break block at the loop's own
\* nesting depth has a slot more than the preheader ends with (and the copy
\* of lines 366-376 above it when the loop has a divergent continue): the
\* inherited top slot holds the restore mask, a new phi of the inherited
\* mask, and the new slot above it is flagged mask_type_loop and holds the
\* loop-active mask, another phi of the inherited mask
C10_HeaderExtraSlot ==
    \A h \in BlockIds :
        (Done(h) /\ IsHeader(h) /\ HasDivergentBreak(h)) =>
            /\ Len(coupled[h + 1].exec)
                   = Len(Blk(info, h - 1).exec) + 1
                     + (IF HasDivergentContinue(h) THEN 1 ELSE 0)
            /\ coupled[h + 1].exec[Len(Blk(info, h - 1).exec)].second
                   = Last(Blk(info, h - 1).exec).second
            /\ HeaderPhiOf(h, coupled[h + 1].exec[Len(Blk(info, h - 1).exec)].first,
                           Last(Blk(info, h - 1).exec).first)
            /\ Has(coupled[h + 1].exec[Len(Blk(info, h - 1).exec) + 1].second,
                   mask_type_loop)
            /\ HeaderPhiOf(h, coupled[h + 1].exec[Len(Blk(info, h - 1).exec) + 1].first,
                           Last(Blk(info, h - 1).exec).first)
            /\ coupled[h + 1].exec[Len(Blk(info, h - 1).exec) + 1].first
                   # coupled[h + 1].exec[Len(Blk(info, h - 1).exec)].first

\* the header of a loop with a divergent break is done
C10_Witness ==
    \E h \in BlockIds : Done(h) /\ IsHeader(h) /\ HasDivergentBreak(h)

IsExit(b) == Has(Blk(blocks, b).kind, block_kind_loop_exit)

\* the header of the loop that exit block x leaves
HeaderOf(x) ==
    MaxOf({h \in BlockIds :
              /\ h < x
              /\ IsHeader(h)
              /\ Blk(blocks_in, h).loop_nest_depth
                     = Blk(blocks_in, x).loop_nest_depth + 1})

\* the mask of slot k (counted from 1) at the end of the i-th linear
\* predecessor of block b
PredMask(b, i, k) == Blk(info, LinearPred(b, i)).exec[k].first

\* the slots, of those the preheader ends with, in which the linear
\* predecessors of exit block x end with different masks
ExitDiverged(x) ==
    {k \in 1..Len(Blk(info, HeaderOf(x) - 1).exec) :
        \E i \in 2..Len(Blk(blocks, x).linear_preds) :
            PredMask(x, i, k) # PredMask(x, 1, k)}

\* the p_linear_phi instructions of block b whose operands are not all the
\* same value
NonTrivialPhis(b) ==
    {p \in LinearPhis(b) :
        \E i \in 2..Len(Blk(blocks, b).instructions[p].operands) :
            Blk(blocks, b).instructions[p].operands[i].id
                # Blk(blocks, b).instructions[p].operands[1].id}

\* block b holds a p_linear_phi over the masks of slot k of its predecessors
PhiOfSlot(b, k) ==
    \E p \in LinearPhis(b) :
        /\ Len(Blk(blocks, b).instructions[p].operands)
               = Len(Blk(blocks, b).linear_preds)
        /\ \A i \in 1..Len(Blk(blocks, b).linear_preds) :
               Blk(blocks, b).instructions[p].operands[i].id = PredMask(b, i, k)

\* C11 (as amended): the exit block of a loop with a divergent break gets a
\* mask phi for a stack slot exactly when the paths into the exit block end
\* with different masks in that slot; the phi is not trivial, its operands
\* being those masks; a slot that every path into the exit block leaves
\* with the same mask, as with a single break path, gets no phi
C11_ExitPhiPerDivergedSlot ==
    \A x \in BlockIds :
        (Done(x) /\ IsExit(x) /\ HasDivergentBreak(HeaderOf(x))) =>
            /\ Cardinality(LinearPhis(x)) = Cardinality(ExitDiverged(x))
            /\ NonTrivialPhis(x) = LinearPhis(x)
            /\ \A k \in ExitDiverged(x) : PhiOfSlot(x, k)

\* the exit block of a loop with a divergent break is done, and two paths
\* into it differ in a mask
C11_Witness ==
    \E x \in BlockIds :
        /\ Done(x) /\ IsExit(x) /\ HasDivergentBreak(HeaderOf(x))
        /\ ExitDiverged(x) # {}

\* C11 as stated: the exit block of a loop with a divergent break receives
\* a mask phi that is not trivial
C11_NonTrivialExitPhi ==
    \A x \in BlockIds :
        (Done(x) /\ IsExit(x) /\ HasDivergentBreak(HeaderOf(x))) =>
            NonTrivialPhis(x) # {}

\* the number of masks recorded for the loop that exit block x leaves: the
\* stack of the preheader when add_branch_code reaches line 741
NumExecMasks(x) == Len(Blk(info, HeaderOf(x) - 1).exec)

\* C17: at every loop exit block the mask stack has, after the coupling
\* code, exactly the number of slots recorded at the preheader of the loop,
\* whatever breaks, continues and discards the loop holds and however loops
\* are nested; and no assertion fails in the exit block.
C17_ExitDepth ==
    \A x \in BlockIds :
        IsExit(x) =>
            /\ Done(x) => Len(coupled[x + 1].exec) = NumExecMasks(x)
            /\ ~(em_pc = "assert_failed" /\ em_block = x + 1)

\* blocks with two linear predecessors that are neither loop header nor
\* loop exit
IsJoin(b) ==
    /\ Len(Blk(blocks, b).linear_preds) = 2
    /\ ~IsHeader(b)
    /\ ~IsExit(b)

\* the mask stack at the end of the i-th linear predecessor of block b
PredExec(b, i) == Blk(info, LinearPred(b, i)).exec

\* block b holds exactly one p_linear_phi with operands x and y, and it
\* defines Temp t
OnePhiOver(b, x, y, t) ==
    Cardinality({p \in LinearPhis(b) :
                    /\ Len(Blk(blocks, b).instructions[p].operands) = 2
                    /\ Blk(blocks, b).instructions[p].operands[1].id = x
                    /\ Blk(blocks, b).instructions[p].operands[2].id = y}) = 1
    /\ \E p \in LinearPhis(b) :
          /\ Blk(blocks, b).instructions[p].operands[1].id = x
          /\ Blk(blocks, b).instructions[p].operands[2].id = y
          /\ Blk(blocks, b).instructions[p].definitions[1].id = t

\* C18: at a block with two linear predecessors, neither loop header nor
\* loop exit, the stack the coupling code builds has as many slots as the
\* shallower predecessor, before any merge pop; a slot with the same Temp on
\* both sides is passed through without a phi; every slot whose Temps
\* differ gets exactly one p_linear_phi, of the intersection of the kinds.
C18_JoinStack ==
    \A b \in BlockIds :
        (Done(b) /\ IsJoin(b)) =>
            /\ Len(coupled[b + 1].merged)
                   = MinLen(PredExec(b, 1), PredExec(b, 2))
            /\ Cardinality(LinearPhis(b)) = Cardinality(DivergedSlots(b))
            /\ \A i \in 1..Len(coupled[b + 1].merged) :
                   IF i \in DivergedSlots(b)
                   THEN /\ OnePhiOver(b, PredExec(b, 1)[i].first,
                                      PredExec(b, 2)[i].first,
                                      coupled[b + 1].merged[i].first)
                        /\ coupled[b + 1].merged[i].second
                               = PredExec(b, 1)[i].second
                                     \cap PredExec(b, 2)[i].second
                   ELSE coupled[b + 1].merged[i] = PredExec(b, 1)[i]

\* a join block is done whose predecessors end with stacks of different
\* depths, with a slot that is passed through and a slot that got a phi
C18_Witness ==
    \E b \in BlockIds :
        /\ Done(b) /\ IsJoin(b)
        /\ Len(PredExec(b, 1)) # Len(PredExec(b, 2))
        /\ DivergedSlots(b) # {}
        /\ \E i \in 1..Len(coupled[b + 1].merged) : i \notin DivergedSlots(b)

\* has_discard of lines 712-714: a block of the loop, at any depth, of kind
\* uses_discard_if or discard
HasDiscard(h) ==
    \E b \in LoopBlocks(h) :
        \/ Has(Blk(blocks_in, b).kind, block_kind_uses_discard_if)
        \/ Has(Blk(blocks_in, b).kind, block_kind_discard)

\* the slots the header h has beyond those the preheader ends with
ExtraSlots(h) == Len(coupled[h + 1].exec) - Len(Blk(info, h - 1).exec)

\* C19 (as amended): a loop header gets slots beyond those inherited from
\* the preheader only if the loop contains a divergent break, a divergent
\* continue or a discard; a loop with none of them has exactly the
\* preheader's stack depth at its header.
C19_ExtraSlotsOnlyIfDivergent ==
    \A h \in BlockIds :
        (Done(h) /\ IsHeader(h)) =>
            /\ ExtraSlots(h) >= 0
            /\ ExtraSlots(h) > 0 =>
                   \/ HasDivergentBreak(h)
                   \/ HasDivergentContinue(h)
                   \/ HasDiscard(h)
            /\ (~HasDivergentBreak(h) /\ ~HasDivergentContinue(h)
                /\ ~HasDiscard(h)) => ExtraSlots(h) = 0

\* the header of a loop with a divergent continue and neither divergent
\* break nor discard is done, and has one slot more than the preheader
C19_Witness ==
    \E h \in BlockIds :
        /\ Done(h) /\ IsHeader(h)
        /\ HasDivergentContinue(h) /\ ~HasDivergentBreak(h) /\ ~HasDiscard(h)
        /\ ExtraSlots(h) = 1

\* C19 as stated: extra slots only if the loop contains a divergent break
\* or a discard; a loop with neither has the preheader's depth
C19_ExtraSlotsOnlyForBreakOrDiscard ==
    \A h \in BlockIds :
        (Done(h) /\ IsHeader(h)) =>
            /\ ExtraSlots(h) > 0 => (HasDivergentBreak(h) \/ HasDiscard(h))
            /\ (~HasDivergentBreak(h) /\ ~HasDiscard(h)) => ExtraSlots(h) = 0

\* the stack slots (counted from 0) the mask phis at the head of loop header
\* h stand for, in the order of the phis: the outer masks 0 .. n-2 of a
\* loop with a discard, then slot n-1, then slot n of a loop with a
\* divergent break; n is the depth of the preheader's stack
PhiSlots(h) ==
    (IF HasDiscard(h)
     THEN [k \in 1..(Len(Blk(info, h - 1).exec) - 1) |-> k - 1] ELSE <<>>)
    \o <<Len(Blk(info, h - 1).exec) - 1>>
    \o (IF HasDivergentBreak(h) THEN <<Len(Blk(info, h - 1).exec)>> ELSE <<>>)

\* the j-th mask phi of header h as bs holds it
MaskPhi(bs, h, j) == Blk(bs, h).instructions[j]

\* operand i (counted from 0) of the j-th mask phi of header h is the mask
\* of slot PhiSlots(h)[j] at the end of the header's i-th linear predecessor
FilledFrom(h, j, i) ==
    /\ PhiSlots(h)[j] + 1 <= Len(PredExec(h, i + 1))
    /\ MaskPhi(blocks, h, j).operands[i + 1]
           = Op(PredExec(h, i + 1)[PhiSlots(h)[j] + 1].first)

\* process_block is about to work on block b
Processing(b) == em_pc = "blocks" /\ em_block = b

\* C20: the mask phis of a loop header are created with only operand 0 set;
\* once the loop exit block has been processed, every operand i >= 1 of
\* every one of them is the mask of the corresponding slot at the end of the
\* header's i-th linear predecessor, and none is unset.
C20_HeaderPhisCompleted ==
    /\ [][\A h \in BlockIds :
             (IsHeader(h) /\ Processing(h) /\ em_pc' # "assert_failed") =>
                 \A j \in 1..Len(PhiSlots(h)) :
                     /\ MaskPhi(blocks', h, j).opcode = "p_linear_phi"
                     /\ Len(MaskPhi(blocks', h, j).operands)
                            = Len(Blk(blocks, h).linear_preds)
                     /\ MaskPhi(blocks', h, j).operands[1] # UnsetOp
                     /\ \A i \in 2..Len(MaskPhi(blocks', h, j).operands) :
                            MaskPhi(blocks', h, j).operands[i] = UnsetOp]_vars
    /\ [](\A x \in BlockIds :
             (IsExit(x) /\ Done(x)) =>
                 \A j \in 1..Len(PhiSlots(HeaderOf(x))) :
                     \A i \in 1..(Len(MaskPhi(blocks, HeaderOf(x), j).operands) - 1) :
                         /\ FilledFrom(HeaderOf(x), j, i)
                         /\ MaskPhi(blocks, HeaderOf(x), j).operands[i + 1]
                                # UnsetOp)

\* the p_linear_phi instructions of block b over the masks of slot k of its
\* linear predecessors, one operand per predecessor
PhisOfSlot(b, k) ==
    {p \in LinearPhis(b) :
        /\ Len(Blk(blocks, b).instructions[p].operands)
               = Len(Blk(blocks, b).linear_preds)
        /\ \A i \in 1..Len(Blk(blocks, b).linear_preds) :
               Blk(blocks, b).instructions[p].operands[i].id = PredMask(b, i, k)}

\* C21: at a loop exit block, for each of the num_exec_masks slots: if all
\* linear predecessors of the exit block carry the same Temp in the slot, no
\* phi is created and that Temp is used; otherwise exactly one p_linear_phi
\* with one operand per predecessor is created and defines the slot; in both
\* cases the kind of the slot is that of the stack of the header's first
\* predecessor.
C21_ExitSlots ==
    \A x \in BlockIds :
        (Done(x) /\ IsExit(x)) =>
            /\ Len(coupled[x + 1].merged) = NumExecMasks(x)
            /\ Cardinality(LinearPhis(x)) = Cardinality(ExitDiverged(x))
            /\ \A k \in 1..NumExecMasks(x) :
                  /\ coupled[x + 1].merged[k].second
                         = PredExec(HeaderOf(x), 1)[k].second
                  /\ IF k \in ExitDiverged(x)
                     THEN /\ Cardinality(PhisOfSlot(x, k)) = 1
                          /\ \A p \in PhisOfSlot(x, k) :
                                Blk(blocks, x).instructions[p].definitions[1].id
                                    = coupled[x + 1].merged[k].first
                     ELSE /\ coupled[x + 1].merged[k].first = PredMask(x, 1, k)
                          /\ PhisOfSlot(x, k) = {}

\* a loop exit block is done that has a slot with a phi, and whose first
\* path into it gives a slot another kind than the preheader does
C21_Witness ==
    \E x \in BlockIds :
        /\ Done(x) /\ IsExit(x)
        /\ ExitDiverged(x) # {}
        /\ \E k \in 1..NumExecMasks(x) :
              PredExec(x, 1)[k].second # PredExec(HeaderOf(x), 1)[k].second

\* the calls of transition_to_WQM and transition_to_Exact made so far
TransitionCalls ==
    UNION {{coupled[b].calls[i] : i \in 1..Len(coupled[b].calls)} :
              b \in 1..Len(coupled)}

\* the kind a transition asks for
RequestedKind(r) == IF r.to = WQM THEN mask_type_wqm ELSE mask_type_exact

\* the top of the stack the call found has the kind already
AlreadyThere(r) ==
    r.before # <<>> /\ Has(Last(r.before).second, RequestedKind(r))

Transition(to, d) ==
    \E r \in TransitionCalls :
        r.to = to /\ ~AlreadyThere(r) /\ Len(r.after) - Len(r.before) = d

IsTopLevel(b) == Has(Blk(blocks_in, b).kind, block_kind_top_level)

\* process_block finishes block em_block in this step, without a failure
BlockStep == em_pc = "blocks" /\ em_pc' # "assert_failed" /\ em_block' = em_block + 1

\* the handling of the two granularities was on and is off
SwitchedOff ==
    /\ program_needs.needs_wqm /\ program_needs.needs_exact
    /\ em_pc \in {"blocks", "done"}
    /\ ~handle_wqm

\* process_block switches the handling off in this step
SwitchOff == BlockStep /\ handle_wqm /\ ~handle_wqm'

\* the blocks (counted from 1) in which the handling was switched off
OffBlocks == {b \in 1..Len(coupled) : coupled[b].off # <<>>}

\* handle_wqm never becomes true again, and it is switched off at a
\* top-level block
OffForGood ==
    /\ [][SwitchOff => IsTopLevel(em_block)]_vars
    /\ [][SwitchedOff => ~handle_wqm']_vars

\* C23 (as amended): once handle_wqm is set to false at a top-level block,
\* it never becomes true again; the mask stack of that block has a single
\* slot when the branch code switched it off, or the coupling code of a
\* block that needs Exact, and keeps its two slots when the coupling code
\* of a block that needs neither granularity switched it off; every later
\* top-level block starts with as many slots as that block was left with.
C23_SwitchedOffForGood ==
    /\ OffForGood
    /\ [][SwitchOff =>
              Len(coupled'[em_block + 1].off)
                  = IF /\ ~coupled'[em_block + 1].handle_wqm
                       /\ Blk(info, em_block).block_needs = {}
                    THEN 2 ELSE 1]_vars
    /\ [][(BlockStep /\ SwitchedOff /\ IsTopLevel(em_block)) =>
              \A b \in OffBlocks :
                  Len(coupled'[em_block + 1].exec) = Len(coupled[b].off)]_vars

\* the coupling code of a block that needs neither granularity has switched
\* the handling off with two slots, and a later top-level block is done
C23_Witness ==
    \E b \in OffBlocks :
        /\ Len(coupled[b].off) = 2
        /\ ~coupled[b].handle_wqm
        /\ \E x \in BlockIds : x > b - 1 /\ Done(x) /\ IsTopLevel(x)

\* C23 as stated: once handle_wqm is set to false at a top-level block, the
\* mask stack of that block has a single slot, handle_wqm never becomes
\* true again, and every later top-level block has a single-slot stack.
C23_SingleSlotForGood ==
    /\ OffForGood
    /\ [][SwitchOff => Len(coupled'[em_block + 1].off) = 1]_vars
    /\ [][(BlockStep /\ SwitchedOff /\ IsTopLevel(em_block)) =>
              Len(coupled'[em_block + 1].exec) = 1]_vars

\* the blocks (counted from 1) whose branch code lowered a break or a
\* continue
JumpBlocks == {b \in 1..Len(coupled) : coupled[b].jump # <<>>}

\* the slots (counted from 1) below the top of stack e down to the nearest
\* slot flagged mask_type_loop; the slot itself is among them if `with`
ScopeRange(e, with) ==
    {k \in 1..(Len(e) - 1) :
        /\ \A m \in (k + 1)..(Len(e) - 1) : ~Has(e[m].second, mask_type_loop)
        /\ with \/ ~Has(e[k].second, mask_type_loop)}

\* block b (counted from 1) holds an s_andn2_b64 that makes Temp t from
\* Temp s and sets the scc Temp cond
NarrowedBy(b, t, s, cond) ==
    \E k \in 1..Len(blocks[b].instructions) :
        /\ blocks[b].instructions[k].opcode = "s_andn2_b64"
        /\ blocks[b].instructions[k].definitions[1].id = t
        /\ blocks[b].instructions[k].definitions[2].id = cond
        /\ blocks[b].instructions[k].operands[1].id = s

\* C24: the lowering of a break or a continue leaves the depth of the
\* stack as it is and rewrites the slots below the top down to the nearest
\* slot flagged mask_type_loop, which a break rewrites as well and a
\* continue does not; the slots below keep their values, and the branch
\* takes the scc of the last slot rewritten.
C24_JumpScopes ==
    \A b \in JumpBlocks :
        LET j == coupled[b].jump[1]
            range == ScopeRange(j.before, j.is_break)
        IN  /\ Len(j.after) = Len(j.before)
            /\ \E k \in 1..(Len(j.before) - 1) :
                   Has(j.before[k].second, mask_type_loop)
            /\ range # {}
            /\ \A k \in 1..(Len(j.before) - 1) :
                   IF k \in range
                   THEN /\ j.after[k].first # j.before[k].first
                        /\ j.after[k].second = j.before[k].second
                        /\ \E cond \in 1..next_id :
                              /\ NarrowedBy(b, j.after[k].first,
                                            j.before[k].first, cond)
                              /\ (\A m \in range : k <= m) => cond = j.cond
                   ELSE j.after[k] = j.before[k]
            /\ Done(b - 1) =>
                   /\ Last(blocks[b].instructions).opcode = "p_cbranch_nz"
                   /\ Last(blocks[b].instructions).operands[1].id = j.cond

\* a break has been lowered that rewrote two slots and kept a slot below
\* them, and a continue that rewrote a slot and kept the slot of the loop
C24_Witness ==
    /\ \E b \in JumpBlocks :
          /\ coupled[b].jump[1].is_break
          /\ Done(b - 1)
          /\ Cardinality(ScopeRange(coupled[b].jump[1].before, TRUE)) = 2
          /\ Len(coupled[b].jump[1].before) > 3
    /\ \E b \in JumpBlocks :
          /\ ~coupled[b].jump[1].is_break
          /\ Done(b - 1)
          /\ ScopeRange(coupled[b].jump[1].before, FALSE) # {}

\* the blocks (counted from 1) of kind discard whose branch code is done
DiscardBlocks == {b \in 1..Len(coupled) : coupled[b].discard # <<>>}

LinearSucc(b, k) == Blk(blocks_in, b).linear_succs[k]

\* the block the lanes that do not jump go on in after break or continue
\* block b (counted from 0): the successor of its second successor
AfterJump(b) == LinearSucc(LinearSucc(b, 2), 1)

\* block b (counted from 0) is of kind invert or merge
IsReconvergence(b) ==
    \/ Has(Blk(blocks_in, b).kind, block_kind_invert)
    \/ Has(Blk(blocks_in, b).kind, block_kind_merge)

\* block b (counted from 1) holds an s_mov_b64 of 0 that defines t in exec
ZeroedBy(b, t) ==
    \E k \in 1..Len(blocks[b].instructions) :
        /\ blocks[b].instructions[k].opcode = "s_mov_b64"
        /\ blocks[b].instructions[k].definitions = <<DefFixed(t, exec)>>
        /\ blocks[b].instructions[k].operands = <<OpConst(0)>>

\* the top of the stack block b (counted from 1) ends with is a zero mask
\* written to exec if block succ is no reconvergence block, and the top of
\* stack e otherwise
ZeroUnlessReconverging(b, succ, e) ==
    IF IsReconvergence(succ)
    THEN Last(info[b].exec) = Last(e)
    ELSE /\ ZeroedBy(b, Last(info[b].exec).first)
         /\ Last(info[b].exec).first # Last(e).first
         /\ Last(info[b].exec).second = Last(e).second

\* C25: after the lowering of a break, of a continue or, outside loops, of
\* a block of kind discard, the top of the stack is the result of
\* s_mov_b64 exec, 0 exactly when the relevant successor is neither of kind
\* invert nor of kind merge, and is left as it was otherwise.
C25_ZeroMask ==
    /\ \A b \in JumpBlocks :
           Done(b - 1) =>
               ZeroUnlessReconverging(b, AfterJump(b - 1), coupled[b].jump[1].after)
    /\ \A b \in DiscardBlocks :
           Done(b - 1) =>
               IF coupled[b].discard[1].in_loop
               THEN Len(coupled[b].jump) = 0 =>
                        Last(info[b].exec) = Last(coupled[b].discard[1].after)
               ELSE ZeroUnlessReconverging(b, LinearSucc(b - 1, 1),
                                           coupled[b].discard[1].after)

\* a break or continue is lowered with exec set to 0, and another one with
\* exec left alone because an invert or merge block follows
C25_Witness ==
    \E b, r \in JumpBlocks :
        /\ Done(b - 1)
        /\ ~IsReconvergence(AfterJump(b - 1))
        /\ ZeroedBy(b, Last(info[b].exec).first)
        /\ Done(r - 1)
        /\ IsReconvergence(AfterJump(r - 1))
        /\ Last(info[r].exec) = Last(coupled[r].jump[1].after)

\* the discards lowered in block b (counted from 1): those of its
\* p_discard_if instructions and that of its kind discard
Discards(b) ==
    {coupled[b].discard_if[k] : k \in 1..Len(coupled[b].discard_if)}
        \cup {coupled[b].discard[k] : k \in 1..Len(coupled[b].discard)}

\* the slots (counted from 1) of stack e from the innermost slot flagged
\* loop upwards
LoopScope(e) ==
    {i \in 1..Len(e) :
        \E j \in 1..i : Has(e[j].second, mask_type_loop)
                         /\ \A k \in (j + 1)..Len(e) :
                                ~Has(e[k].second, mask_type_loop)}

\* block b (counted from 1) holds a p_discard_if with operand s whose
\* definition at the same place is t
NarrowedByDiscard(b, t, s) ==
    \E k \in 1..Len(blocks[b].instructions) :
        /\ blocks[b].instructions[k].opcode = "p_discard_if"
        /\ \E i \in 1..(Len(blocks[b].instructions[k].operands) - 1) :
               /\ blocks[b].instructions[k].operands[i].id = s
               /\ blocks[b].instructions[k].definitions[i].id = t

\* discard d of block b rewrote exactly the slots of set S
Rewrote(b, d, S) ==
    /\ Len(d.after) = Len(d.before)
    /\ \A i \in 1..Len(d.before) :
           IF i \in S
           THEN /\ d.after[i].second = d.before[i].second
                /\ d.after[i].first # d.before[i].first
                /\ NarrowedByDiscard(b, d.after[i].first, d.before[i].first)
           ELSE d.after[i] = d.before[i]

DiscardSlots(d) ==
    IF ~d.of_block THEN 1..Len(d.before)
    ELSE IF d.in_loop THEN 1..d.outer
    ELSE 1..(Len(d.before) - 1)

Branched_(k) ==
    {b \in 1..Len(coupled) :
        /\ coupled[b].branched # <<>>
        /\ Done(b - 1)
        /\ Has(Blk(blocks_in, b - 1).kind, k)}

\* the instruction before the branch that ends block b (counted from 1)
MaskInstr(b) == blocks[b].instructions[Len(blocks[b].instructions) - 1]

\* the lanes of a wave the algebra is evaluated on
Lanes == {"lane0", "lane1"}

\* the lanes of Temp t as instruction x computes them from the lanes env
\* gives its operands
LanesOf(x, t, env) ==
    IF x.opcode = "s_and_saveexec_b64"
    THEN IF x.definitions[1].id = t THEN env[x.operands[2].id]
         ELSE env[x.operands[1].id] \cap env[x.operands[2].id]
    ELSE env[x.operands[1].id] \ env[x.operands[2].id]

\* stack e without its top
Below(e) == SubSeq(e, 1, Len(e) - 1)

\* lines 810-826 as the claim has them: block b pushed the then-mask, made
\* by x from the condition of the branch and the current mask, over the
\* saved current mask
ThenPushed(b, x) ==
    LET j == coupled[b].branched[1]
    IN  /\ Len(j.after) = Len(j.before) + 1
        /\ Below(Below(j.after)) = Below(j.before)
        /\ x.operands = <<Op(Last(blocks_in[b].instructions).operands[1].id),
                          OpFixed(Last(j.before).first, exec)>>
        /\ x.definitions[1] = Def(j.after[Len(j.before)].first)
        /\ x.definitions[3] = DefFixed(Last(j.after).first, exec)
        /\ j.after[Len(j.before)].second = Last(j.before).second
        /\ Last(j.after).second
               = Last(j.before).second \cap (mask_type_wqm \cup mask_type_exact)
        /\ \A cur \in SUBSET Lanes : \A cond \in SUBSET Lanes :
               LET env == (x.operands[1].id :> cond) @@ (x.operands[2].id :> cur)
               IN  /\ LanesOf(x, x.definitions[1].id, env) = cur
                   /\ LanesOf(x, x.definitions[3].id, env) = cur \cap cond

\* lines 834-844 as the claim has them: block b replaced the then-mask on
\* top by the else-mask, made by x from the saved mask below and the
\* then-mask
ElseReplaced(b, x) ==
    LET j == coupled[b].branched[1]
    IN  /\ Len(j.after) = Len(j.before)
        /\ Len(j.before) >= 2
        /\ Below(j.after) = Below(j.before)
        /\ x.operands = <<Op(j.before[Len(j.before) - 1].first),
                          OpFixed(Last(j.before).first, exec)>>
        /\ x.definitions[1] = DefFixed(Last(j.after).first, exec)
        /\ Last(j.after).second = Last(j.before).second
        /\ Last(j.after).first # Last(j.before).first

\* the branch block (counted from 1) of invert block v (counted from 1):
\* the block before the empty block that skips the then-side
BranchOfInvert(v) ==
    Blk(blocks_in, Blk(blocks_in, v - 1).linear_preds[2]).linear_preds[1] + 1

\* invert block v (counted from 1) found on its stack the saved mask and
\* the then-mask its branch block left
SameIf(v) ==
    LET b == BranchOfInvert(v)
    IN  /\ b \in Branched_(block_kind_branch)
        /\ Len(coupled[b].branched[1].after) = Len(coupled[v].branched[1].before)
        /\ \A k \in {0, 1} :
               coupled[v].branched[1].before[Len(coupled[v].branched[1].before) - k].first
                   = coupled[b].branched[1].after[Len(coupled[v].branched[1].before) - k].first

\* with s the instruction of the branch block and x that of invert block
\* v: then-mask and else-mask share no lane and make up the current mask
\* of the branch block, whatever it and the condition are
Partition(s, x) ==
    \A cur \in SUBSET Lanes : \A cond \in SUBSET Lanes :
        LET env == (s.operands[1].id :> cond) @@ (s.operands[2].id :> cur)
            saved == LanesOf(s, s.definitions[1].id, env)
            then_mask == LanesOf(s, s.definitions[3].id, env)
            else_mask == LanesOf(x, x.definitions[1].id,
                                 (s.definitions[1].id :> saved)
                                     @@ (s.definitions[3].id :> then_mask))
        IN  /\ then_mask \cap else_mask = {}
            /\ then_mask \cup else_mask = cur

\* C27: a branch block pushes the then-mask, current mask AND condition,
\* over the saved current mask; an invert block replaces the top by saved
\* mask AND NOT top, of the same kind, at the same depth; and when the
\* invert block finds the two masks of its branch block, then-mask and
\* else-mask are disjoint and their union is the mask the branch block
\* started from.
C27_IfElseAlgebra ==
    /\ \A b \in Branched_(block_kind_branch) :
           /\ MaskInstr(b).opcode = "s_and_saveexec_b64"
           /\ ThenPushed(b, MaskInstr(b))
           /\ Last(blocks[b].instructions).operands
                  = <<OpFixed(Last(info[b].exec).first, exec)>>
    /\ \A v \in Branched_(block_kind_invert) :
           /\ MaskInstr(v).opcode = "s_andn2_b64"
           /\ ElseReplaced(v, MaskInstr(v))
           /\ SameIf(v) =>
                  Partition(MaskInstr(BranchOfInvert(v)), MaskInstr(v))

\* an invert block has made the else-mask from the two masks of its branch
\* block, and another one from masks the then-side had changed
C27_Witness ==
    \E v, w \in Branched_(block_kind_invert) :
        /\ SameIf(v)
        /\ ~SameIf(w)
        /\ Len(coupled[v].branched[1].after) >= 3

\* calculate_wqm_needs has emptied its worklist
WorklistEmptied ==
    /\ program_needs.needs_wqm /\ program_needs.needs_exact
    /\ \/ em_pc = "worklist" /\ wqm.worklist = {}
       \/ em_pc \in {"blocks", "done"}

\* the Temps instruction x defines, and those it reads
DefinedBy(x) == {x.definitions[j].id : j \in 1..Len(x.definitions)} \ {NoTemp}
ReadBy(x) == {x.operands[j].id : j \in 1..Len(x.operands)} \ {NoTemp}

\* the places (block counted from 1, instruction) where a Temp marked
\* needs_wqm is defined
WqmDefs ==
    {p \in UNION {{<<b, k>> : k \in 1..Len(blocks_in[b].instructions)} :
                     b \in 1..Len(blocks_in)} :
        DefinedBy(blocks_in[p[1]].instructions[p[2]]) \cap wqm.needs_wqm # {}}

\* C28 as stated: the instruction that defines a Temp marked needs_wqm has
\* its Temp operands marked and is recorded as needing WQM
C28_ClosedAndWqm ==
    WorklistEmptied =>
        \A p \in WqmDefs :
            /\ ReadBy(blocks_in[p[1]].instructions[p[2]]) \subseteq wqm.needs_wqm
            /\ info[p[1]].instr_needs[p[2]] = WQM

\* C28: when calculate_wqm_needs has emptied its worklist, the instruction
\* that defines a Temp marked needs_wqm, unless it needs Exact, has every
\* Temp operand marked needs_wqm as well, and is recorded as needing WQM if
\* the exec mask predicates it and as Unspecified if not.
C28_DemandClosure ==
    WorklistEmptied =>
        \A p \in WqmDefs :
            ~needs_exact(blocks_in[p[1]].instructions[p[2]]) =>
                /\ ReadBy(blocks_in[p[1]].instructions[p[2]])
                       \subseteq wqm.needs_wqm
                /\ info[p[1]].instr_needs[p[2]]
                       = IF pred_by_exec_mask(blocks_in[p[1]].instructions[p[2]])
                         THEN WQM ELSE Unspecified

\* the worklist is empty, a marked Temp is defined from a Temp by an
\* instruction that the exec mask predicates, and another one by a scalar
\* instruction
C28_Witness ==
    /\ WorklistEmptied
    /\ \E p, q \in WqmDefs :
          /\ pred_by_exec_mask(blocks_in[p[1]].instructions[p[2]])
          /\ ReadBy(blocks_in[p[1]].instructions[p[2]]) # {}
          /\ ~pred_by_exec_mask(blocks_in[q[1]].instructions[q[2]])
          /\ ReadBy(blocks_in[q[1]].instructions[q[2]]) # {}

\* a step of the worklist loop of calculate_wqm_needs
WorklistStep == em_pc = "worklist" /\ wqm.worklist # {} /\ em_pc' # "start"

\* the blocks the step puts on the worklist: those on it afterwards that
\* were not on it, or that the step had taken off
Requeued ==
    wqm'.worklist \ (wqm.worklist \ {MaxOf(wqm.worklist)})

\* the step puts a block on the worklist only as the block that defines a
\* Temp whose needs_wqm flag the step sets, and resets no flag
RequeuedForNewDemand ==
    /\ wqm.needs_wqm \subseteq wqm'.needs_wqm
    /\ wqm.branch_wqm \subseteq wqm'.branch_wqm
    /\ \A b \in Requeued :
           \E t \in wqm'.needs_wqm \ wqm.needs_wqm : wqm'.defined_in[t] = b

\* mark_block_wqm went on with no block twice
VisitedOnce ==
    program_needs.needs_wqm /\ program_needs.needs_exact /\ em_pc # "start"
        => \A i, j \in 1..Len(wqm.visits) :
               wqm.visits[i] = wqm.visits[j] => i = j

\* C29: calculate_wqm_needs comes to an end; a block gets on the worklist
\* again only when the needs_wqm flag of a Temp it defines changes from
\* false to true; no needs_wqm or branch_wqm flag is reset; and
\* mark_block_wqm goes on with each block at most once.
C29_NeedsTerminate ==
    /\ <>(em_pc \notin {"start", "worklist"})
    /\ [][WorklistStep => RequeuedForNewDemand]_vars
    /\ []VisitedOnce

\* a block that was taken off the worklist is on it again, and
\* mark_block_wqm has followed the back edge of a loop
C29_Witness ==
    /\ em_pc = "worklist"
    /\ \E b \in wqm.worklist : \E t \in wqm.needs_wqm :
           /\ wqm.defined_in[t] = b
           /\ \E k \in 1..Len(wqm.visits) : wqm.visits[k] < b
    /\ \E k \in 1..(Len(wqm.visits) - 1) : wqm.visits[k] < wqm.visits[k + 1]

-----------------------------------------------------------------------------
(* Machine words.  A w-bit word is the sequence of its bits, least          *)
(* significant first, so that 32-bit and 64-bit values keep their width.    *)

Word(w, bit(_)) == SubSeq([i \in 1..w |-> bit(i)], 1, w)

\* the w-bit two's-complement pattern of an int n, -2^31 <= n < 2^31
ToWord(n, w) ==
    LET m == IF n >= 0 THEN n ELSE -(n + 1)
        b(i) == IF i > 31 THEN 0 ELSE (m \div Pow2(i - 1)) % 2
    IN  Word(w, LAMBDA i : IF n >= 0 THEN b(i) ELSE 1 - b(i))

\* conversion of an unsigned value to a wider unsigned type
ZeroExtend(a, w) == Word(w, LAMBDA i : IF i <= Len(a) THEN a[i] ELSE 0)

WordAnd(a, b) == Word(Len(a), LAMBDA i : a[i] * b[i])
WordOr(a, b) == Word(Len(a), LAMBDA i : IF a[i] + b[i] > 0 THEN 1 ELSE 0)
WordXor(a, b) == Word(Len(a), LAMBDA i : (a[i] + b[i]) % 2)

\* a + b modulo 2^w
WordAdd(a, b) ==
    LET carry[i \in 1..Len(a)] ==
            IF i = 1 THEN 0 ELSE (a[i - 1] + b[i - 1] + carry[i - 1]) \div 2
    IN  Word(Len(a), LAMBDA i : (a[i] + b[i] + carry[i]) % 2)

WordShl(a, n) == Word(Len(a), LAMBDA i : IF i > n THEN a[i - n] ELSE 0)

\* a * b modulo 2^w, by shift and add
RECURSIVE WordMulFrom(_, _, _, _)
WordMulFrom(a, b, i, acc) ==
    IF Len(acc) = 0 \/ i > Len(a) THEN acc
    ELSE WordMulFrom(a, b, i + 1,
                     IF b[i] = 1 THEN WordAdd(acc, WordShl(a, i - 1)) ELSE acc)
WordMul(a, b) == WordMulFrom(a, b, 1, ToWord(0, Len(a)))

\* a < b as unsigned, and as two's-complement signed, integers
WordULess(a, b) ==
    \E i \in 1..Len(a) :
        /\ a[i] < b[i]
        /\ \A j \in (i + 1)..Len(a) : a[j] = b[j]
WordSLess(a, b) ==
    IF a[Len(a)] # b[Len(b)] THEN a[Len(a)] = 1 ELSE WordULess(a, b)

-----------------------------------------------------------------------------
(* Subgroup reductions (aco_ir.h, aco_lower_to_hw_instr.cpp) *)

\* enum ReduceOp: iadd32, iadd64, imul32, ..., ixor64 is [kind, bits]
IntegerKinds == {"iadd", "imul", "imin", "imax", "umin", "umax",
                 "iand", "ior", "ixor"}
FloatKinds == {"fadd", "fmul", "fmin", "fmax"}
ReduceOp == [kind : IntegerKinds \cup FloatKinds, bits : {32, 64}]

\* get_reduction_identity: the result is a uint32_t
get_reduction_identity(op) ==
    CASE op.kind \in {"iadd", "fadd", "ior", "ixor", "umax"} -> ToWord(0, 32)
      [] op.kind = "imul" -> ToWord(1, 32)
      [] op.kind = "fmul" -> ToWord(1065353216, 32)       \* 0x3f800000
      [] op.kind = "imin" -> ToWord(2147483647, 32)       \* INT32_MAX
      [] op.kind = "imax" -> ToWord(-2147483647 - 1, 32)  \* INT32_MIN
      [] op.kind \in {"umin", "iand"} -> ToWord(-1, 32)   \* UINT32_MAX
      [] op.kind = "fmin" -> ToWord(2139095040, 32)       \* 0x7f800000
      [] op.kind = "fmax" -> ToWord(-8388608, 32)         \* 0xff800000

\* what the integer operator of a ReduceOp computes (get_reduction_opcode
\* picks v_add_u32, v_mul_lo_u32, v_min_i32, ... for them)
ReduceApply(op, x, y) ==
    CASE op.kind = "iadd" -> WordAdd(x, y)
      [] op.kind = "imul" -> WordMul(x, y)
      [] op.kind = "imin" -> IF WordSLess(y, x) THEN y ELSE x
      [] op.kind = "imax" -> IF WordSLess(x, y) THEN y ELSE x
      [] op.kind = "umin" -> IF WordULess(y, x) THEN y ELSE x
      [] op.kind = "umax" -> IF WordULess(x, y) THEN y ELSE x
      [] op.kind = "iand" -> WordAnd(x, y)
      [] op.kind = "ior" -> WordOr(x, y)
      [] op.kind = "ixor" -> WordXor(x, y)

\* the operands the identity is tried on: 0, and around every power of two
\* at the edges of a dword, 2^(p-1), 2^p - 1 and -2^p
EdgeBits(w) == {p \in {1, 2, 31, 32, 33, 63, 64} : p <= w}
Operands(w) ==
    {ToWord(0, w)}
    \cup {Word(w, LAMBDA i : IF i = p THEN 1 ELSE 0) : p \in EdgeBits(w)}
    \cup {Word(w, LAMBDA i : IF i <= p THEN 1 ELSE 0) : p \in EdgeBits(w)}
    \cup {Word(w, LAMBDA i : IF i <= p THEN 0 ELSE 1) : p \in EdgeBits(w)}

InitReduce ==
    /\ fn_pc = "reduce"
    /\ \E op \in ReduceOp : \E x \in Operands(op.bits) :
           fn_in = [op |-> op, x |-> x]
    /\ fn_out = <<>>
    /\ IdleCopy
    /\ IdleDce
    /\ IdleExec
    /\ IdleLower

ReductionIdentity ==
    /\ fn_pc = "reduce"
    /\ fn_out' = get_reduction_identity(fn_in.op)
    /\ fn_pc' = "reduced"
    /\ UNCHANGED <<fn_in, notFn>>

NextReduce == ReductionIdentity

SpecReduce == InitReduce /\ [][NextReduce]_vars

\* C13: for every integer ReduceOp, 32-bit or 64-bit, the value returned by
\* get_reduction_identity is neutral at the operator's width:
\* op(x, identity) = x for every operand x.
C13_ReductionIdentity ==
    (fn_pc = "reduced" /\ fn_in.op.kind \in IntegerKinds)
        => ReduceApply(fn_in.op, fn_in.x,
                       ZeroExtend(fn_out, fn_in.op.bits)) = fn_in.x

-----------------------------------------------------------------------------
(* Constant operands (aco_ir.h): Operand::Operand(uint32_t) *)

WordNot(a) == Word(Len(a), LAMBDA i : 1 - a[i])
\* a - b modulo 2^w
WordSub(a, b) == WordAdd(a, WordAdd(WordNot(b), ToWord(1, Len(a))))
\* a <= b as unsigned integers
WordULeq(a, b) == a = b \/ WordULess(a, b)

\* the value of the low 16 bits of a word: the conversion to uint16_t
RECURSIVE LowBits(_, _)
LowBits(a, n) == IF n = 0 THEN 0 ELSE a[1] + 2 * LowBits(Tail(a), n - 1)
Uint16(a) == LowBits(a, 16)

\* PhysReg{192 - v}: unsigned arithmetic, stored in PhysReg::reg (uint16_t)
NegativeSlotAdded(v) == Uint16(WordAdd(ToWord(192, 32), v))
NegativeSlot(v) == Uint16(WordSub(ToWord(192, 32), v))

\* setFixed(PhysReg reg): reg is a uint16_t, which converted to unsigned
\* never equals (unsigned)-1
setFixed(o, reg) == [o EXCEPT !.isFixed = TRUE, !.reg = reg]

\* explicit Operand(uint32_t v)
Operand_uint32(v) ==
    LET o == [i |-> v, isConst |-> TRUE, isFixed |-> FALSE, reg |-> 0]
    IN  IF WordULeq(v, ToWord(64, 32))
            THEN setFixed(o, 128 + Uint16(v))
        ELSE IF WordULeq(ToWord(-16, 32), v)               \* 0xFFFFFFF0
            THEN setFixed(o, NegativeSlot(v))
        ELSE IF v = ToWord(1056964608, 32) THEN setFixed(o, 240)  \* 0x3f000000
        ELSE IF v = ToWord(-1090519040, 32) THEN setFixed(o, 241) \* 0xbf000000
        ELSE IF v = ToWord(1065353216, 32) THEN setFixed(o, 242)  \* 0x3f800000
        ELSE IF v = ToWord(-1082130432, 32) THEN setFixed(o, 243) \* 0xbf800000
        ELSE IF v = ToWord(1073741824, 32) THEN setFixed(o, 244)  \* 0x40000000
        ELSE IF v = ToWord(-1073741824, 32) THEN setFixed(o, 245) \* 0xc0000000
        ELSE IF v = ToWord(1082130432, 32) THEN setFixed(o, 246)  \* 0x40800000
        ELSE IF v = ToWord(-1065353216, 32) THEN setFixed(o, 247) \* 0xc0800000
        ELSE IF v = ToWord(1042479491, 32) THEN setFixed(o, 248)  \* 0x3e22f983
        ELSE setFixed(o, 255)

isConstant(o) == o.isConst
isLiteral(o) == isConstant(o) /\ o.reg = 255

\* an IEEE-754 single: 23 bits of mantissa, 8 of exponent, the sign
Ieee754(sign, exponent, mantissa) ==
    Word(32, LAMBDA i : IF i <= 23 THEN (mantissa \div Pow2(i - 1)) % 2
                        ELSE IF i <= 31 THEN (exponent \div Pow2(i - 24)) % 2
                        ELSE sign)
\* 0.5, 1.0, 2.0, 4.0 and their negatives, and 1/(2*PI)
SpecialFloats ==
    {Ieee754(s, e, 0) : s \in {0, 1}, e \in 126..129}
    \cup {Ieee754(0, 124, 2292099)}

\* the constants the constructor is tried on: the small integers and the
\* special floats, with what lies next to them, and the edges of a dword
Neighbours(v) == {WordSub(v, ToWord(1, 32)), v, WordAdd(v, ToWord(1, 32))}
Constants32 ==
    {ToWord(n, 32) : n \in -20..70}
    \cup UNION {Neighbours(f) : f \in SpecialFloats}
    \cup UNION {Neighbours(ToWord(n, 32)) :
                   n \in {255, 256, 65535, 65664, 2147483647}}

InitOperand ==
    /\ fn_pc = "operand"
    /\ \E v \in Constants32 : fn_in = [v |-> v]
    /\ fn_out = <<>>
    /\ IdleCopy
    /\ IdleDce
    /\ IdleExec
    /\ IdleLower

OperandConstruct ==
    /\ fn_pc = "operand"
    /\ fn_out' = Operand_uint32(fn_in.v)
    /\ fn_pc' = "constructed"
    /\ UNCHANGED <<fn_in, notFn>>

NextOperand == OperandConstruct

SpecOperand == InitOperand /\ [][NextOperand]_vars

\* the slots of registers: SGPRs and the fixed scalar registers (vcc 106,
\* m0 124, exec 126 and 127), scc (253) and the VGPRs (from 256)
RegisterSlots == 0..127 \cup {253} \cup 256..511

InlineValue(v) ==
    \/ WordULeq(v, ToWord(64, 32))
    \/ WordULeq(ToWord(-16, 32), v)
    \/ v \in SpecialFloats

\* C14: a 32-bit constant is a literal (slot 255) exactly when it is outside
\* 0..64, outside 0xFFFFFFF0..0xFFFFFFFF and no special float pattern; every
\* other value has an inline slot, distinct inline values have distinct
\* slots, and no inline slot is the literal slot or the slot of a register.
C14_ConstantEncoding ==
    fn_pc = "constructed" =>
        /\ isLiteral(fn_out) <=> ~InlineValue(fn_in.v)
        /\ InlineValue(fn_in.v) =>
               /\ fn_out.isFixed
               /\ fn_out.reg \notin {255} \cup RegisterSlots
               /\ \A w \in Constants32 :
                      (InlineValue(w) /\ w # fn_in.v)
                          => Operand_uint32(w).reg # fn_out.reg

\* a constant just below the small negatives is a literal, and -16 itself
\* has the last inline slot of the negatives
C14_Witness ==
    /\ fn_pc = "constructed"
    /\ \/ fn_in.v = ToWord(-17, 32) /\ isLiteral(fn_out)
       \/ fn_in.v = ToWord(-16, 32) /\ fn_out.reg = 208

-----------------------------------------------------------------------------
(* emit_reduction (aco_lower_to_hw_instr.cpp:44-307) *)

\* the register of vcc (aco_ir.h)
vcc == 106

\* Operand(PhysReg, RegClass) and Definition(PhysReg, RegClass)
PhysOp(r, c) == [isConst |-> FALSE, isUndef |-> FALSE, reg |-> r, rc |-> c]
PhysDef(r, c) == [reg |-> r, rc |-> c]
\* Operand(v1): undefined
Undef(c) == [isConst |-> FALSE, isUndef |-> TRUE, reg |-> 128, rc |-> c]

\* explicit Operand(uint64_t v), for the values that have an inline slot of
\* the two integer ranges; the slot is computed in 32 bits as in the code
Operand_uint64(v) ==
    LET o == [i |-> v, isConst |-> TRUE, is64BitConst |-> TRUE, isFixed |-> FALSE,
              isUndef |-> FALSE, reg |-> 0]
    IN  IF WordULeq(v, ToWord(64, 64))
        THEN setFixed(o, 128 + Uint16(v))
        ELSE setFixed(o, NegativeSlot(SubSeq(v, 1, 32)))

\* an instruction a Builder method or create_instruction makes
Made(fmt, opc, ds, os) ==
    [format |-> fmt, opcode |-> opc, definitions |-> ds, operands |-> os]
\* the same with the fields of a DPP_instruction
MadeDpp(fmt, opc, ds, os, ctrl, rmask, bmask, bctrl) ==
    [format |-> fmt, opcode |-> opc, definitions |-> ds, operands |-> os,
     dpp_ctrl |-> ctrl, row_mask |-> rmask, bank_mask |-> bmask,
     bound_ctrl |-> bctrl]

\* lines 44-79
emit_dpp_op(dst, src0, src1, vtmp, op, format, clobber_vcc, dpp_ctrl, row_mask, bank_mask, bound_ctrl_zero, identity) ==
    IF format = "VOP3"
    THEN (IF ~identity.isUndef
          THEN <<Made("VOP1", "v_mov_b32", <<PhysDef(vtmp, "v1")>>, <<identity>>)>>
          ELSE <<>>)
         \o <<MadeDpp("VOP1", "v_mov_b32", <<PhysDef(vtmp, "v1")>>,
                      <<PhysOp(src0, "v1")>>, dpp_ctrl, row_mask, bank_mask,
                      bound_ctrl_zero)>>
         \o <<Made("VOP3", op,
                   IF clobber_vcc THEN <<PhysDef(dst, "v1"), PhysDef(vcc, "s2")>>
                   ELSE <<PhysDef(dst, "v1")>>,
                   <<PhysOp(vtmp, "v1"), PhysOp(src1, "v1")>>)>>
    ELSE <<MadeDpp(format, op,
                   IF clobber_vcc THEN <<PhysDef(dst, "v1"), PhysDef(vcc, "s2")>>
                   ELSE <<PhysDef(dst, "v1")>>,
                   IF format = "VOP2" THEN <<PhysOp(src0, "v1"), PhysOp(src1, "v1")>>
                   ELSE <<PhysOp(src0, "v1")>>,
                   dpp_ctrl, row_mask, bank_mask, bound_ctrl_zero)>>

\* lines 122-173, for the 32-bit operators: [opcode, clobber_vcc, format]
get_reduction_opcode(chip, op) ==
    LET r(o, c, f) == [opcode |-> o, clobber_vcc |-> c, format |-> f]
    IN  CASE op.kind = "iadd" ->
                r(IF chip = "GFX8" THEN "v_add_co_u32" ELSE "v_add_u32",
                  chip = "GFX8", "VOP2")
          [] op.kind = "imul" -> r("v_mul_lo_u32", FALSE, "VOP3")
          [] op.kind = "fadd" -> r("v_add_f32", FALSE, "VOP2")
          [] op.kind = "fmul" -> r("v_mul_f32", FALSE, "VOP2")
          [] op.kind = "imax" -> r("v_max_i32", FALSE, "VOP2")
          [] op.kind = "imin" -> r("v_min_i32", FALSE, "VOP2")
          [] op.kind = "umin" -> r("v_min_u32", FALSE, "VOP2")
          [] op.kind = "umax" -> r("v_max_u32", FALSE, "VOP2")
          [] op.kind = "fmin" -> r("v_min_f32", FALSE, "VOP2")
          [] op.kind = "fmax" -> r("v_max_f32", FALSE, "VOP2")
          [] op.kind = "iand" -> r("v_and_b32", FALSE, "VOP2")
          [] op.kind = "ixor" -> r("v_xor_b32", FALSE, "VOP2")
          [] op.kind = "ior" -> r("v_or_b32", FALSE, "VOP2")

\* a slip in lines 175-195: a move of src0 in place of the operator
EmitVopnMove(dst, src0, src1, op, format, clobber_vcc) ==
    Made("VOP1", "v_mov_b32", <<PhysDef(dst, "v1")>>, <<PhysOp(src0, "v1")>>)

\* lines 175-195
emit_vopn(dst, src0, src1, op, format, clobber_vcc) ==
    Made(format, op,
         IF clobber_vcc THEN <<PhysDef(dst, "v1"), PhysDef(vcc, "s2")>>
         ELSE <<PhysDef(dst, "v1")>>,
         <<PhysOp(src0, "v1"), PhysOp(src1, "v1")>>)

\* the DPP controls and the swizzle pattern used
dpp_quad_perm(a, b, c, d) == <<"quad_perm", a, b, c, d>>
dpp_row_sr(n) == <<"row_sr", n>>
ds_pattern_bitmode(and_mask, or_mask, xor_mask) ==
    <<"bitmode", and_mask, or_mask, xor_mask>>

\* lines 236-264: the steps of p_reduce; each entry is the cluster size at
\* which the switch leaves before the step
ReduceSteps(cluster_size, tmp, vtmp, stmp, dst, ro) ==
    LET step(ctrl, rm) ==
            emit_dpp_op(tmp, tmp, tmp, vtmp, ro.opcode, ro.format, ro.clobber_vcc,
                        ctrl, rm, 15, FALSE, Undef("v1"))
    IN  IF cluster_size = 1 THEN [exec_restored |-> FALSE, dst_written |-> FALSE, code |-> <<>>]
        ELSE LET c1 == step(dpp_quad_perm(1, 0, 3, 2), 15)
        IN  IF cluster_size = 2 THEN [exec_restored |-> FALSE, dst_written |-> FALSE, code |-> c1]
        ELSE LET c2 == c1 \o step(dpp_quad_perm(2, 3, 0, 1), 15)
        IN  IF cluster_size = 4 THEN [exec_restored |-> FALSE, dst_written |-> FALSE, code |-> c2]
        ELSE LET c3 == c2 \o step(<<"row_half_mirror">>, 15)
        IN  IF cluster_size = 8 THEN [exec_restored |-> FALSE, dst_written |-> FALSE, code |-> c3]
        ELSE LET c4 == c3 \o step(<<"row_mirror">>, 15)
        IN  IF cluster_size = 16 THEN [exec_restored |-> FALSE, dst_written |-> FALSE, code |-> c4]
        ELSE IF cluster_size = 32
        THEN [exec_restored |-> TRUE, dst_written |-> TRUE,
              code |-> c4
                \o <<Made("DS", "ds_swizzle_b32", <<PhysDef(vtmp, "v1")>>,
                          <<PhysOp(tmp, "s1")>>)
                       @@ [pattern |-> ds_pattern_bitmode(31, 0, 16)]>>
                \o <<Made("SOP1", "s_mov_b64", <<PhysDef(exec, "s2")>>,
                          <<PhysOp(stmp, "s2")>>)>>
                \o <<emit_vopn(dst.reg, vtmp, tmp, ro.opcode, ro.format, ro.clobber_vcc)>>]
        ELSE [exec_restored |-> FALSE, dst_written |-> FALSE,
              code |-> c4 \o step(<<"row_bcast15">>, 10) \o step(<<"row_bcast31">>, 12)]

\* lines 266-291: the steps of the scans
ScanSteps(op, tmp, vtmp, identity, ro) ==
    LET step(ctrl, rm) ==
            emit_dpp_op(tmp, tmp, tmp, vtmp, ro.opcode, ro.format, ro.clobber_vcc,
                        ctrl, rm, 15, FALSE, identity)
        shift == IF op = "p_exclusive_scan"
                 THEN emit_dpp_op(tmp, tmp, tmp, vtmp, "v_mov_b32", "VOP1", FALSE,
                                  <<"wf_sr1">>, 15, 15, TRUE, Undef("v1"))
                      \o (IF ~identity.isConst \/ identity.i # ToWord(0, 32)
                          THEN <<Made("VOP3", "v_writelane_b32", <<PhysDef(tmp, "v1")>>,
                                      <<identity, Operand_uint32(ToWord(0, 32))>>)>>
                          ELSE <<>>)
                 ELSE <<>>
    IN  shift \o step(dpp_row_sr(1), 15) \o step(dpp_row_sr(2), 15)
              \o step(dpp_row_sr(4), 15) \o step(dpp_row_sr(8), 15)
              \o step(<<"row_bcast15">>, 10) \o step(<<"row_bcast31">>, 12)

\* a slip in lines 293-294: exec is restored whether or not it was before
RestoreExecAlways(exec_restored, stmp) ==
    <<Made("SOP1", "s_mov_b64", <<PhysDef(exec, "s2")>>, <<PhysOp(stmp, "s2")>>)>>

\* lines 293-294
RestoreExec(exec_restored, stmp) ==
    IF ~exec_restored
    THEN <<Made("SOP1", "s_mov_b64", <<PhysDef(exec, "s2")>>, <<PhysOp(stmp, "s2")>>)>>
    ELSE <<>>

\* lines 197-307: what emit_reduction appends to ctx->instructions
emit_reduction(chip, op, reduce_op, cluster_size, tmp, stmp, vtmp, sitmp, src, dst) ==
    LET ro == get_reduction_opcode(chip, reduce_op)
        identity0 == Operand_uint32(get_reduction_identity(reduce_op)) @@ [isUndef |-> FALSE]
        last == tmp + src.size - 1
        save == <<Made("SOP1", "s_or_saveexec_b64",
                       <<PhysDef(stmp, "s2"), PhysDef(scc, "s1"), PhysDef(exec, "s2")>>,
                       <<Operand_uint64(ToWord(-1, 64)), PhysOp(exec, "s2")>>)>>
        lit == IF isLiteral(identity0) /\ op = "p_exclusive_scan"
               THEN <<Made("SOP1", "s_mov_b32", <<PhysDef(sitmp, "s1")>>, <<identity0>>),
                      Made("VOP1", "v_mov_b32", <<PhysDef(last, "v1")>>,
                           <<PhysOp(sitmp, "s1")>>)>>
               ELSE IF isLiteral(identity0)
               THEN <<Made("VOP1", "v_mov_b32", <<PhysDef(last, "v1")>>, <<identity0>>)>>
               ELSE <<>>
        identity == IF isLiteral(identity0) /\ op = "p_exclusive_scan"
                    THEN PhysOp(sitmp, "s1") ELSE identity0
        vcndmask_identity == IF isLiteral(identity0) THEN PhysOp(last, "v1") ELSE identity0
        masked == [k \in 1..src.size |->
                      Made("VOP3", "v_cndmask_b32", <<PhysDef(tmp + (k - 1), "v1")>>,
                           <<vcndmask_identity, PhysOp(src.reg + (k - 1), "v1"),
                             PhysOp(stmp, "s2")>>)]
        body == IF op = "p_reduce"
                THEN ReduceSteps(cluster_size, tmp, vtmp, stmp, dst, ro)
                ELSE [exec_restored |-> FALSE, dst_written |-> FALSE,
                      code |-> ScanSteps(op, tmp, vtmp, identity, ro)]
        restore == RestoreExec(body.exec_restored, stmp)
        result == IF op = "p_reduce" /\ cluster_size = 64
                  THEN [k \in 1..src.size |->
                           Made("VOP3", "v_readlane_b32", <<PhysDef(dst.reg + (k - 1), "s1")>>,
                                <<PhysOp(tmp + (k - 1), "v1"),
                                  Operand_uint32(ToWord(63, 32))>>)]
                  ELSE IF dst.reg # tmp /\ ~body.dst_written
                  THEN [k \in 1..src.size |->
                           Made("VOP1", "v_mov_b32", <<PhysDef(dst.reg + (k - 1), "s1")>>,
                                <<PhysOp(tmp + (k - 1), "v1")>>)]
                  ELSE <<>>
    IN  save \o lit \o masked \o body.code \o restore \o result

\* the calls of emit_reduction tried: every 32-bit operator, p_reduce with
\* every cluster size and the scans over the wave, on both chips, with the
\* destination apart from or in the vector temporary
ReduceModes ==
    {[op |-> "p_reduce", cluster_size |-> Pow2(k)] : k \in 0..6}
    \cup {[op |-> o, cluster_size |-> 64] : o \in {"p_inclusive_scan", "p_exclusive_scan"}}
ReductionCalls ==
    {[chip |-> c, op |-> m.op, reduce_op |-> [kind |-> k, bits |-> 32],
      cluster_size |-> m.cluster_size, tmp |-> 260, stmp |-> 10, vtmp |-> 261,
      sitmp |-> 12, src |-> [reg |-> 258, size |-> 1],
      dst |-> [reg |-> d, size |-> 1]] :
        c \in {"GFX8", "GFX9"}, m \in ReduceModes,
        k \in IntegerKinds \cup FloatKinds, d \in {260, 262}}

InitReduction ==
    /\ fn_pc = "emit_reduction"
    /\ fn_in \in ReductionCalls
    /\ fn_out = <<>>
    /\ IdleCopy
    /\ IdleDce
    /\ IdleExec
    /\ IdleLower

EmitReduction ==
    /\ fn_pc = "emit_reduction"
    /\ fn_out' = emit_reduction(fn_in.chip, fn_in.op, fn_in.reduce_op,
                                fn_in.cluster_size, fn_in.tmp, fn_in.stmp,
                                fn_in.vtmp, fn_in.sitmp, fn_in.src, fn_in.dst)
    /\ fn_pc' = "emitted"
    /\ UNCHANGED <<fn_in, notFn>>

NextReduction == EmitReduction

SpecReduction == InitReduction /\ [][NextReduction]_vars

-----------------------------------------------------------------------------
(* What the emitted reduction does *)

ReductionEmitted == fn_pc = "emitted"

IsDpp(ins) == "dpp_ctrl" \in DOMAIN ins
IsCrossLane(ins) == IsDpp(ins) \/ ins.opcode = "ds_swizzle_b32"

\* s_or_saveexec_b64 stmp, -1: exec is saved to stmp and all lanes are on
SavesExec(ins) ==
    /\ ins.opcode = "s_or_saveexec_b64"
    /\ ins.definitions[1] = PhysDef(fn_in.stmp, "s2")
    /\ ins.definitions[3] = PhysDef(exec, "s2")
    /\ ins.operands[1].isConst /\ ins.operands[1].i = ToWord(-1, 64)
    /\ ins.operands[2] = PhysOp(exec, "s2")

\* s_mov_b64 exec, stmp
RestoresExec(ins) ==
    /\ ins.opcode = "s_mov_b64"
    /\ ins.definitions = <<PhysDef(exec, "s2")>>
    /\ ins.operands = <<PhysOp(fn_in.stmp, "s2")>>

WritesExec(ins) ==
    \E i \in 1..Len(ins.definitions) : ins.definitions[i].reg = exec

Restores == {i \in 1..Len(fn_out) : RestoresExec(fn_out[i])}

\* C36: every sequence emit_reduction emits starts by saving exec into the
\* scalar temporary while activating all lanes, restores exec from it exactly
\* once, and has every DPP or swizzle step between the save and the restore.
C36_ExecBracket ==
    ReductionEmitted =>
        /\ Len(fn_out) >= 2
        /\ SavesExec(fn_out[1])
        /\ Cardinality(Restores) = 1
        /\ \A i \in 2..Len(fn_out) : WritesExec(fn_out[i]) => i \in Restores
        /\ \A i \in 1..Len(fn_out) :
               IsCrossLane(fn_out[i]) => \A r \in Restores : 1 < i /\ i < r

\* a reduction over 32 lanes (swizzle before the restore, combine after it)
\* on the chip whose add clobbers vcc
C36_Witness ==
    /\ ReductionEmitted
    /\ fn_in.op = "p_reduce" /\ fn_in.cluster_size = 32
    /\ fn_in.chip = "GFX8" /\ fn_in.reduce_op.kind = "iadd"
    /\ \E i \in 1..Len(fn_out) : fn_out[i].opcode = "ds_swizzle_b32"
    /\ \E i \in 1..Len(fn_out) : IsDpp(fn_out[i])

-----------------------------------------------------------------------------
(* The lanes a reduction combines *)

\* the lanes of a wave
WaveSize == 64
WaveLanes == 0..(WaveSize - 1)

\* the aligned group of n lanes that lane l belongs to
GroupOf(l, n) == {x \in WaveLanes : x \div n = l \div n}

\* the lane a DPP control makes lane l read, or -1 when it reads none
DppSource(ctrl, l) ==
    CASE ctrl[1] = "quad_perm" -> (l - (l % 4)) + ctrl[2 + (l % 4)]
      [] ctrl[1] = "row_half_mirror" -> (l - (l % 8)) + (7 - (l % 8))
      [] ctrl[1] = "row_mirror" -> (l - (l % 16)) + (15 - (l % 16))
      [] ctrl[1] = "row_bcast15" -> IF l >= 16 THEN (l - (l % 16)) - 1 ELSE -1
      [] ctrl[1] = "row_bcast31" -> IF l >= 32 THEN 31 ELSE -1
      [] OTHER -> -1
\* the lane ds_swizzle_b32 in bit mode makes lane l read
SwizzleSource(p, l) ==
    (l - (l % 32)) + BitXor((l % 32) % (p[2] + 1), p[4])
\* row_mask enables the row of lane l
RowEnabled(row_mask, l) == (row_mask \div Pow2(l \div 16)) % 2 = 1

\* the lanes whose source values are combined in each lane of a register;
\* rf maps a register to a function of the lanes
ReadLanes(rf, o, l) == IF o.isConst \/ o.reg \notin DOMAIN rf THEN {} ELSE rf[o.reg][l]
DppRead(rf, ins, l) ==
    LET s == DppSource(ins.dpp_ctrl, l)
    IN  IF s = -1 THEN {} ELSE rf[ins.operands[1].reg][s]
LaneStep(rf, ins, ro) ==
    LET d == ins.definitions[1].reg
    IN  IF IsDpp(ins)
        THEN [rf EXCEPT ![d] =
                 [l \in WaveLanes |->
                     IF RowEnabled(ins.row_mask, l) /\ DppSource(ins.dpp_ctrl, l) # -1
                     THEN DppRead(rf, ins, l)
                          \cup (IF Len(ins.operands) = 2
                                THEN ReadLanes(rf, ins.operands[2], l) ELSE {})
                     ELSE rf[d][l]]]
        ELSE IF ins.opcode = "ds_swizzle_b32"
        THEN [rf EXCEPT ![d] =
                 [l \in WaveLanes |->
                     rf[ins.operands[1].reg][SwizzleSource(ins.pattern, l)]]]
        ELSE IF ins.opcode = ro \/ ins.opcode = "v_mov_b32"
        THEN [rf EXCEPT ![d] =
                 [l \in WaveLanes |->
                     UNION {ReadLanes(rf, ins.operands[i], l) :
                               i \in 1..Len(ins.operands)}]]
        ELSE IF ins.opcode = "v_cndmask_b32"
        THEN [rf EXCEPT ![d] = [l \in WaveLanes |-> ReadLanes(rf, ins.operands[2], l)]]
        ELSE rf

\* the registers after the first n instructions of the sequence
RECURSIVE LanesAfter(_, _, _)
LanesAfter(code, n, ro) ==
    IF n = 0
    THEN [r \in {fn_in.src.reg, fn_in.tmp, fn_in.vtmp, fn_in.dst.reg} |->
             [l \in WaveLanes |-> IF r = fn_in.src.reg THEN {l} ELSE {}]]
    ELSE LaneStep(LanesAfter(code, n - 1, ro), code[n], ro)

ReduceOpcode == get_reduction_opcode(fn_in.chip, fn_in.reduce_op).opcode
\* the positions of the combine steps: the instructions of the reduction
\* operator
Combines == {i \in 1..Len(fn_out) : fn_out[i].opcode = ReduceOpcode}
\* the i-th of them
NthCombine(i) == CHOOSE p \in Combines : Cardinality({q \in Combines : q <= p}) = i

RECURSIVE Log2(_)
Log2(n) == IF n <= 1 THEN 0 ELSE 1 + Log2(n \div 2)

ReadsLane63(ins) ==
    /\ ins.opcode = "v_readlane_b32"
    /\ ins.operands[2].isConst /\ ins.operands[2].i = ToWord(WaveSize - 1, 32)

\* C37: p_reduce with a cluster of 2^k lanes emits exactly k combine steps
\* with the reduction operator, each doubling the group of lanes already
\* combined, none beyond the cluster; only for cluster size 64 is the result
\* read from lane 63 into the scalar destination.
C37_ClusterSteps ==
    (ReductionEmitted /\ fn_in.op = "p_reduce") =>
        LET k == Log2(fn_in.cluster_size)
            last == WaveSize - 1
        IN  /\ Cardinality(Combines) = k
            /\ \A i \in 1..k :
                   LET p == NthCombine(i)
                       d == fn_out[p].definitions[1].reg
                   IN  LanesAfter(fn_out, p, ReduceOpcode)[d][last] = GroupOf(last, Pow2(i))
            /\ LET final == LanesAfter(fn_out, Len(fn_out), ReduceOpcode)[fn_in.dst.reg]
               IN  IF fn_in.cluster_size = WaveSize
                   THEN \E i \in 1..Len(fn_out) :
                            /\ ReadsLane63(fn_out[i])
                            /\ fn_out[i].definitions[1] = PhysDef(fn_in.dst.reg, "s1")
                            /\ LanesAfter(fn_out, i, ReduceOpcode)[fn_out[i].operands[1].reg][last]
                                   = WaveLanes
                   ELSE /\ \A l \in WaveLanes : final[l] = GroupOf(l, fn_in.cluster_size)
                        /\ \A i \in 1..Len(fn_out) : ~ReadsLane63(fn_out[i])

\* the two ways the last steps are made: the swizzle for 32 lanes, with the
\* operator that needs the VOP3 form
C37_Witness ==
    /\ ReductionEmitted
    /\ fn_in.op = "p_reduce" /\ fn_in.cluster_size = 32
    /\ fn_in.reduce_op.kind = "imul"
    /\ Cardinality(Combines) = 5

-----------------------------------------------------------------------------
(* What is left of the copy map after the paths *)

\* the loop of lines 353-402 has ended with entries left, and the loop of
\* lines 409-463 has not begun
PathsEnded ==
    ho_pc = "cycles" /\ ho_it = BeginKey(copy_map) /\ ho_it # EndIt

\* the entries of the map other than k that read register k
ReadersOf(k) ==
    {x \in (DOMAIN copy_map) \ {k} :
        ~copy_map[x].op.isConst /\ copy_map[x].op.reg = k}

\* the register the entry of k reads, followed j times from k
RECURSIVE LeftChain(_, _)
LeftChain(k, j) ==
    IF j = 0 THEN k ELSE copy_map[LeftChain(k, j - 1)].op.reg

\* the entry the loop of lines 409-463 is at is one it swaps with
AtSwap ==
    /\ ho_pc = "cycles" /\ ho_it # EndIt
    /\ ho_it # copy_map[ho_it].op.reg
    /\ ~copy_map[ho_it].op.isConst

\* C30: when the paths are done and entries are left, every entry left has
\* uses = 1, is read by exactly one other entry left and reads a register
\* that leads back to it; so no entry swapped with has uses other than 1, and
\* no constant is put off to the pass of lines 466-478.
C30_LeftAreCycles ==
    /\ PathsEnded =>
           \A k \in DOMAIN copy_map :
               /\ copy_map[k].uses = 1
               /\ Cardinality(ReadersOf(k)) = 1
               /\ ~copy_map[k].op.isConst
               /\ \E j \in 2..Cardinality(DOMAIN copy_map) : LeftChain(k, j) = k
    /\ AtSwap => copy_map[ho_it].uses = 1
    /\ ~constants
    /\ ho_pc \in {"cycles", "done"} =>
           \A k \in DOMAIN copy_map : ~copy_map[k].op.isConst

\* the paths are done after a copy was emitted, and two SGPRs that read
\* each other are left
C30_Witness ==
    /\ PathsEnded
    /\ Len(instructions) > 0
    /\ Cardinality(DOMAIN copy_map) = 2
    /\ \E k \in DOMAIN copy_map : RegTypeOf(k) = "sgpr" /\ k # scc

-----------------------------------------------------------------------------
(* SCC under handle_operands *)

\* copies among s0..s2 and scc, up to four at once: enough for a swap with
\* scc next to a cycle of two other SGPRs
SccCopies == 4
SccDests == {0, 1, 2, scc}
SccCopySets == UNION {CopySetsOver(ds) :
                        ds \in {s \in SUBSET SccDests : Cardinality(s) \in 1..SccCopies}}

InitScc == InitCopyOn(SccCopySets)

SpecScc == InitScc /\ [][NextCopy]_vars

\* the instruction writes SCC: s_cmp_lg_i32 sets it, s_xor_b32 defines it
\* besides its destination (lines 376, 433, 441-446)
WritesScc(ins) == ins.opcode \in {"s_cmp_lg_i32", "s_xor_b32"} \/ ins.def = scc

\* the instruction that carries a copy's value into SCC (lines 376 and 433)
CopiesToScc(ins) == ins.opcode = "s_cmp_lg_i32" /\ ins.def = scc

\* instruction i of the emitted list belongs to a relay through the scratch
\* SGPR: the scratch is written from a register and read back two later
RelaySave(i) ==
    /\ i + 2 <= Len(instructions)
    /\ instructions[i].opcode = "s_mov_b32"
    /\ instructions[i].def = pi.scratch_sgpr
    /\ instructions[i + 2].opcode = "s_mov_b32"
    /\ instructions[i + 2].op0 = RegOperand(pi.scratch_sgpr)

\* the registers instruction i writes
Written(ins) ==
    {ins.def} \cup (IF ins.opcode = "s_mov_b64" THEN {ins.def + 1} ELSE {})
              \cup (IF ins.opcode = "v_swap_b32" THEN {ins.op0.reg} ELSE {})

\* SCC is to be kept and no copy is into SCC: nothing emitted writes SCC, and
\* the scratch SGPR is written by the relay alone
SccKept ==
    (pi.tmp_in_scc /\ scc \notin DOMAIN copy_in) =>
        \A i \in 1..Len(instructions) :
            /\ ~WritesScc(instructions[i])
            /\ pi.scratch_sgpr \in Written(instructions[i]) =>
                   (ho_pc \in {"cycles", "done"} => RelaySave(i))

\* instruction i is the last one that carries a value into SCC
LastToScc(i) ==
    /\ CopiesToScc(instructions[i])
    /\ \A j \in (i + 1)..Len(instructions) : ~CopiesToScc(instructions[j])

\* a copy is into SCC: in the sequence handle_operands has emitted when it
\* returns, no instruction after the last one that carries a value into SCC
\* writes SCC
SccSettled ==
    \A i \in 1..Len(instructions) :
        (ho_pc = "done" /\ LastToScc(i)) =>
            \A j \in (i + 1)..Len(instructions) : ~WritesScc(instructions[j])

\* C31: when the pseudo instruction has tmp_in_scc set and no copy has SCC as
\* its destination, no emitted instruction writes SCC and the scratch SGPR is
\* written only by the relay; when a copy writes SCC, nothing emitted after
\* that write changes SCC again.
C31_SccPreserved == SccKept /\ SccSettled

-----------------------------------------------------------------------------
(* lower_to_hw_instr (aco_lower_to_hw_instr.cpp:481-713) *)

\* an Operand of the program after register allocation: a Temp fixed to
\* registers reg .. reg + size - 1, a 32-bit constant, or undefined
TempOp(r, n) == [isConst |-> FALSE, isUndef |-> FALSE, reg |-> r, size |-> n, val |-> 0]
ConstOp(v) == [isConst |-> TRUE, isUndef |-> FALSE, reg |-> 128 + v, size |-> 1, val |-> v]
UndefOp(n) == [isConst |-> FALSE, isUndef |-> TRUE, reg |-> 128, size |-> n, val |-> 0]
\* a Definition fixed to registers reg .. reg + size - 1
Defn(r, n) == [reg |-> r, size |-> n]

\* Instruction: format, opcode, operands, definitions; id tells the
\* instructions of a program apart
Pseudo(opc, ds, os, i) ==
    [format |-> "PSEUDO", opcode |-> opc, definitions |-> ds, operands |-> os,
     tmp_in_scc |-> FALSE, scratch_sgpr |-> 20, id |-> i]
PseudoBranch(opc, os, tgt, i) ==
    [format |-> "PSEUDO_BRANCH", opcode |-> opc, definitions |-> <<>>,
     operands |-> os, target |-> <<tgt>>, id |-> i]
Other(fmt, opc, i) ==
    [format |-> fmt, opcode |-> opc, definitions |-> <<>>, operands |-> <<>>, id |-> i]

\* what the Builder creates: the format is that of the Builder method
Hw(fmt, opc, ds, os) ==
    [format |-> fmt, opcode |-> opc, definitions |-> ds, operands |-> os]

\* the formats of the instructions handle_operands creates (bld.sop1,
\* bld.sopc, bld.sop2, bld.vop1, bld.vop2)
FormatOf(opc) ==
    CASE opc \in {"s_mov_b32", "s_mov_b64"} -> "SOP1"
      [] opc = "s_cmp_lg_i32" -> "SOPC"
      [] opc = "s_xor_b32" -> "SOP2"
      [] opc \in {"v_mov_b32", "v_swap_b32"} -> "VOP1"
      [] opc = "v_xor_b32" -> "VOP2"

HwOf(ins) == Hw(FormatOf(ins.opcode), ins.opcode, <<ins.def>>, <<ins.op0, ins.op1>>)

RECURSIVE HwSeq(_)
HwSeq(s) == IF s = <<>> THEN <<>> ELSE <<HwOf(Head(s))>> \o HwSeq(Tail(s))

\* handle_operands as one call. The loop of lines 353-402
RECURSIVE HoPaths(_, _, _)
HoPaths(m, pscc, out) ==
    IF \A k \in DOMAIN m : m[k].uses # 0
    THEN [map |-> m, preserve_scc |-> pscc, instructions |-> out]
    ELSE LET k0 == MinOf({k \in DOMAIN m : m[k].uses = 0})
             co == Coalesce(m, k0)
             e == co.map[co.it]
         IN  HoPaths(Erase(DecUses(co.map, e, 0), co.it),
                     pscc \/ co.it = scc,
                     Append(out, LeafInstr(co.it, e)))

\* the loop of lines 409-463 from key k on
RECURSIVE HoCycles(_, _, _, _, _, _)
HoCycles(m, k, pscc, p, cs, out) ==
    IF k = EndIt
    THEN [ok |-> TRUE,
          instructions |->
              out \o (IF cs THEN ConstInstrs(m, DOMAIN m) ELSE <<>>)]
    ELSE LET e == m[k]
             \* lines 411-419: an identity copy or a constant is passed over
             skip == k = e.op.reg \/ e.op.isConst
             \* the assertions of lines 421-426 and 446
             held == ~ \/ (pscc /\ RegTypeOf(k) = "sgpr" /\ k = p.scratch_sgpr)
                       \/ RegTypeOf(e.op.reg) # RegTypeOf(k)
                       \/ (~(p.chip = "GFX9" /\ RegTypeOf(k) = "vgpr")
                             /\ (e.op.reg = scc \/ k = scc) /\ pscc)
             sw == SwapInstrs(k, e, p.chip, pscc, p.scratch_sgpr)
         IN  IF ~skip /\ ~(held /\ e.uses = 1)
             THEN [ok |-> FALSE, instructions |-> IF held THEN out \o sw ELSE out]
             ELSE HoCycles(IF skip THEN m ELSE Retarget(m, k, e.op.reg),
                           NextKey(m, k), pscc, p,
                           cs \/ (k # e.op.reg /\ e.op.isConst),
                           IF skip THEN out ELSE out \o sw)

\* handle_operands(copy_map, ctx, chip_class, pi): what it appends to
\* ctx->instructions, and whether its assertions held
handle_operands(copy_operations, chip, instr) ==
    LET cu == CountUses(copy_operations, DOMAIN copy_operations, FALSE)
        ps == HoPaths(cu.map, instr.tmp_in_scc /\ ~cu.writes_scc, <<>>)
    IN  IF DOMAIN ps.map = {} THEN [ok |-> TRUE, instructions |-> HwSeq(ps.instructions)]
        ELSE LET cy == HoCycles(ps.map, BeginKey(ps.map), ps.preserve_scc,
                                [chip |-> chip, scratch_sgpr |-> instr.scratch_sgpr],
                                FALSE, ps.instructions)
             IN  [ok |-> cy.ok, instructions |-> HwSeq(cy.instructions)]

\* copy_operations[def] = {op, def, 0, 1} for each pair of a list
RECURSIVE CopyOps(_)
CopyOps(pairs) ==
    IF pairs = <<>> THEN <<>>
    ELSE LET rest == CopyOps(Tail(pairs))
             d == Head(pairs)[1]
         IN  [k \in (DOMAIN rest) \cup {d} |->
                 IF k \in DOMAIN rest THEN rest[k] ELSE CopyOp(Head(pairs)[2])]

\* the registers 0 .. n - 1 as a sequence
Upto(n) == [i \in 1..n |-> i - 1]

RECURSIVE Flatten(_)
Flatten(ss) == IF ss = <<>> THEN <<>> ELSE Head(ss) \o Flatten(Tail(ss))

\* lines 495-513: the copies of p_extract_vector, when it makes any
ExtractReg(instr) == instr.operands[1].reg + instr.operands[2].val
ExtractPairs(instr) ==
    LET d == instr.definitions[1]
    IN  [i \in 1..d.size |-> <<d.reg + (i - 1), RegOperand(ExtractReg(instr) + (i - 1))>>]

\* lines 514-543: the copies of p_create_vector from operand i on, the
\* definition being filled up to reg_idx
RECURSIVE CreatePairs(_, _, _)
CreatePairs(instr, i, reg_idx) ==
    IF i > Len(instr.operands) THEN <<>>
    ELSE LET o == instr.operands[i]
             d == instr.definitions[1]
             made == IF o.isUndef THEN <<>>
                     ELSE IF o.isConst THEN <<<<d.reg + reg_idx, ConstOperand(o.val)>>>>
                     ELSE [j \in 1..o.size |->
                              <<d.reg + reg_idx + (j - 1), RegOperand(o.reg + (j - 1))>>]
         IN  made \o CreatePairs(instr, i + 1, reg_idx + Len(made))

\* lines 544-562: the copies of p_split_vector
SplitSource(instr, i, j) ==
    LET k == instr.definitions[i + 1].size
    IN  instr.operands[1].reg + (i * k + j)
SplitPairs(instr) ==
    Flatten([i \in 1..Len(instr.definitions) |->
                [j \in 1..instr.definitions[i].size |->
                    <<instr.definitions[i].reg + (j - 1),
                      RegOperand(SplitSource(instr, i - 1, j - 1))>>]])

\* lines 563-585: the copies of p_parallelcopy
ParallelPairs(instr) ==
    Flatten([i \in 1..Len(instr.operands) |->
                LET o == instr.operands[i]
                    d == instr.definitions[i]
                IN  IF o.isConst THEN <<<<d.reg, ConstOperand(o.val)>>>>
                    ELSE [j \in 1..o.size |->
                             <<d.reg + (j - 1), RegOperand(o.reg + (j - 1))>>]])

\* a slip in line 600: the write-back of the scalar cache is not counted
JumpDwordsShort(wb_smem) == 3

\* line 600: (8 + (wb_smem ? 8 : 0) + 4 dwords) / 4
jump_dwords(wb_smem) == IF wb_smem THEN 5 ELSE 3

\* lines 586-613: the machine code of p_discard_if
DiscardIfCode(instr, wb_smem) ==
    LET n == Len(instr.operands)
        branch_cond == instr.definitions[Len(instr.definitions)]
        discard_cond == instr.operands[n]
    IN  [k \in 1..(n - 1) |->
            Hw("SOP2", "s_andn2_b64", <<instr.definitions[n - k], branch_cond>>,
               <<instr.operands[n - k], discard_cond>>)]
        \o <<[format |-> "SOPP", opcode |-> "s_cbranch_scc1", definitions |-> <<>>,
               operands |-> <<TempOp(scc, 1)>>, imm |-> jump_dwords(wb_smem)]>>
        \o <<Hw("EXP", "exp", <<>>, <<UndefOp(1), UndefOp(1), UndefOp(1), UndefOp(1)>>)>>
        \o (IF wb_smem THEN <<Hw("SMEM", "s_dcache_wb", <<>>, <<>>)>> ELSE <<>>)
        \o <<Hw("SOPP", "s_endpgm", <<>>, <<>>)>>

\* lines 614-623: p_spill
SpillCode(instr) ==
    [i \in 1..instr.operands[3].size |->
        Hw("VOP3", "v_writelane_b32", <<Defn(instr.operands[1].reg, 1)>>,
           <<TempOp(instr.operands[3].reg + (i - 1), 1),
             ConstOp(instr.operands[2].val + (i - 1))>>)]

\* lines 624-634: p_reload
ReloadCode(instr) ==
    [i \in 1..instr.definitions[1].size |->
        Hw("VOP3", "v_readlane_b32", <<Defn(instr.definitions[1].reg + (i - 1), 1)>>,
           <<instr.operands[1], ConstOp(instr.operands[2].val + (i - 1))>>)]

\* lines 641-652: p_as_uniform
AsUniformCode(instr) ==
    [i \in 1..instr.definitions[1].size |->
        Hw("VOP1", "v_readfirstlane_b32", <<Defn(instr.definitions[1].reg + (i - 1), 1)>>,
           <<TempOp(instr.operands[1].reg + (i - 1), 1)>>)]

\* a case of the switch that ends without a call of handle_operands
NoCopies(ok, code) == [ok |-> ok, instructions |-> code, copies |-> <<>>, called |-> FALSE]
\* a case that ends with handle_operands(copy_operations, ...)
WithCopies(pairs, chip, instr) ==
    LET copy_operations == CopyOps(pairs)
        r == handle_operands(copy_operations, chip, instr)
    IN  [ok |-> r.ok, instructions |-> r.instructions,
         copies |-> copy_operations, called |-> TRUE]

\* lines 490-656: the switch over the opcode of a PSEUDO instruction
LowerPseudoInstr(instr, opts) ==
    CASE instr.opcode \in {"p_extract_vector", "p_create_vector",
                           "p_split_vector", "p_parallelcopy"} ->
            IF /\ instr.opcode \in {"p_extract_vector", "p_split_vector"}
               /\ instr.operands[1].isUndef
            THEN NoCopies(TRUE, <<>>)
            ELSE IF /\ instr.opcode = "p_extract_vector"
                    /\ ExtractReg(instr) = instr.definitions[1].reg
            THEN NoCopies(TRUE, <<>>)
            ELSE IF /\ instr.opcode = "p_parallelcopy"
                    /\ \E i \in 1..Len(instr.operands) :
                          /\ instr.operands[i].isConst \/ instr.operands[i].size = 1
                          /\ instr.definitions[i].size # 1
            THEN NoCopies(FALSE, <<>>)
            ELSE WithCopies(CASE instr.opcode = "p_extract_vector" -> ExtractPairs(instr)
                              [] instr.opcode = "p_create_vector" -> CreatePairs(instr, 1, 0)
                              [] instr.opcode = "p_split_vector" -> SplitPairs(instr)
                              [] instr.opcode = "p_parallelcopy" -> ParallelPairs(instr),
                            opts.chip_class, instr)
      [] instr.opcode = "p_discard_if" ->
            NoCopies(TRUE, DiscardIfCode(instr, opts.wb_smem_l1_on_end))
      [] instr.opcode = "p_spill" -> NoCopies(TRUE, SpillCode(instr))
      [] instr.opcode = "p_reload" -> NoCopies(TRUE, ReloadCode(instr))
      [] instr.opcode = "p_wqm" ->
            NoCopies(instr.operands[1].isUndef
                        \/ instr.operands[1].reg = instr.definitions[1].reg, <<>>)
      [] instr.opcode = "p_as_uniform" ->
            NoCopies(/\ RegTypeOf(instr.operands[1].reg) = "vgpr"
                     /\ RegTypeOf(instr.definitions[1].reg) = "sgpr"
                     /\ instr.operands[1].size = instr.definitions[1].size,
                     AsUniformCode(instr))
      [] OTHER -> NoCopies(TRUE, <<>>)

\* a slip in lines 659-665: the blocks in between are not looked at
CanRemoveForward(bs, index, target) == index < target

\* lines 659-665: all blocks from the current one to the target are empty
can_remove(bs, index, target) ==
    /\ index < target
    /\ \A i \in (index + 1)..(target - 1) : Len(bs[i + 1].instructions) = 0

\* lines 667-697: the machine branch of a pseudo branch
BranchOpcode(instr) ==
    LET r == IF instr.operands = <<>> THEN 0 ELSE instr.operands[1].reg
    IN  CASE instr.opcode = "p_branch" -> "s_branch"
          [] instr.opcode = "p_cbranch_nz" ->
                IF r = exec THEN "s_cbranch_execnz"
                ELSE IF r = vcc THEN "s_cbranch_vccnz" ELSE "s_cbranch_scc1"
          [] instr.opcode = "p_cbranch_z" ->
                IF r = exec THEN "s_cbranch_execz"
                ELSE IF r = vcc THEN "s_cbranch_vccz" ELSE "s_cbranch_scc0"
BranchAsserts(block, instr) ==
    /\ instr.opcode = "p_branch" => block.linear_succs[1] = instr.target[1]
    /\ instr.opcode # "p_branch" =>
           /\ Len(block.linear_succs) >= 2
           /\ block.linear_succs[2] = instr.target[1]
           /\ instr.operands[1].reg \in {exec, vcc, scc}
BranchCode(instr) ==
    [format |-> "SOPP", opcode |-> BranchOpcode(instr), definitions |-> <<>>,
     operands |-> <<>>, block |-> instr.target[1]]

-----------------------------------------------------------------------------
(* The programs lower_to_hw_instr is run on *)

\* a Block: its index, its instructions and its linear successors
Block(i, is, succs) == [index |-> i, instructions |-> is, linear_succs |-> succs]

\* a PSEUDO_REDUCTION instruction (operands src, tmp, vtmp; definitions dst,
\* stmp, sitmp)
Reduction(c, i) ==
    [format |-> "PSEUDO_REDUCTION", opcode |-> c.op, reduce_op |-> c.reduce_op,
     cluster_size |-> c.cluster_size,
     operands |-> <<TempOp(c.src.reg, c.src.size), TempOp(c.tmp, 1), TempOp(c.vtmp, 1)>>,
     definitions |-> <<Defn(c.dst.reg, c.dst.size), Defn(c.stmp, 2), Defn(c.sitmp, 1)>>,
     id |-> i]

\* sequences over S of length lo..hi
SeqsOf(S, lo, hi) == UNION {[1..n -> S] : n \in lo..hi}

RECURSIVE SumSizes(_, _)
SumSizes(xs, n) == IF n = 0 THEN 0 ELSE xs[n].size + SumSizes(xs, n - 1)

\* the widest vector and the longest list of parts tried
VectorSize == 4
MaxParts == 3

\* p_extract_vector of element n of size s from a vector of VectorSize
\* registers at s8, into s0, into the vector's own first registers or into
\* its registers from s10 on
ExtractInstrs ==
    {Pseudo("p_extract_vector", <<Defn(x.d, x.s)>>, <<x.o, ConstOp(x.n)>>, 1) :
        x \in {y \in [o : {TempOp(8, VectorSize), UndefOp(VectorSize)}, s : {1, 2},
                      n : 0..(VectorSize - 1), d : {0, 8, 10}] :
                  (y.n + 1) * y.s <= VectorSize}}

\* p_create_vector of up to MaxParts operands, operand i a Temp of one or two
\* registers at s(8 + 4 i), the constant 3 or undefined, into s0..
CreateOperands(i) ==
    {TempOp(8 + 4 * i, 1), TempOp(8 + 4 * i, 2), ConstOp(3), UndefOp(1), UndefOp(2)}
CreateInstrs ==
    {Pseudo("p_create_vector", <<Defn(0, SumSizes(os, Len(os)))>>, os, 1) :
        os \in {x \in SeqsOf(UNION {CreateOperands(i) : i \in 1..MaxParts}, 1, MaxParts) :
                   \A i \in DOMAIN x : x[i] \in CreateOperands(i)}}

\* p_split_vector of a vector at s8 into up to MaxParts definitions of one or
\* two registers, laid out from s0 on or over the vector itself
SplitDefs(sizes, base) ==
    [i \in DOMAIN sizes |-> Defn(base + SumSizes(sizes, i - 1), sizes[i].size)]
SplitInstrs ==
    {Pseudo("p_split_vector", SplitDefs(sizes, base),
            <<IF u THEN UndefOp(SumSizes(sizes, Len(sizes)))
              ELSE TempOp(8, SumSizes(sizes, Len(sizes)))>>, 1) :
        sizes \in SeqsOf({[size |-> 1], [size |-> 2]}, 1, MaxParts),
        base \in {0, 8}, u \in BOOLEAN}

\* the other pseudo instructions, each in one shape
MiscInstrs ==
    {Pseudo("p_parallelcopy", <<Defn(0, 1), Defn(1, 1)>>, <<TempOp(1, 1), TempOp(0, 1)>>, 1),
     Pseudo("p_parallelcopy", <<Defn(0, 2), Defn(2, 1)>>, <<TempOp(8, 2), ConstOp(3)>>, 1),
     Pseudo("p_discard_if", <<Defn(exec, 2), Defn(scc, 1)>>,
            <<TempOp(exec, 2), TempOp(0, 2)>>, 1),
     Pseudo("p_discard_if", <<Defn(2, 2), Defn(exec, 2), Defn(scc, 1)>>,
            <<TempOp(2, 2), TempOp(exec, 2), TempOp(0, 2)>>, 1),
     Pseudo("p_spill", <<>>, <<TempOp(256, 1), ConstOp(2), TempOp(0, 2)>>, 1),
     Pseudo("p_reload", <<Defn(0, 2)>>, <<TempOp(256, 1), ConstOp(2)>>, 1),
     Pseudo("p_wqm", <<Defn(0, 1)>>, <<TempOp(0, 1)>>, 1),
     Pseudo("p_wqm", <<Defn(0, 1)>>, <<UndefOp(1)>>, 1),
     Pseudo("p_as_uniform", <<Defn(0, 1)>>, <<TempOp(256, 1)>>, 1),
     Pseudo("p_logical_start", <<>>, <<>>, 1),
     Other("PSEUDO_BARRIER", "p_memory_barrier_all", 1),
     Other("VOP2", "v_add_f32", 1)}
    \cup {Reduction(c, 1) : c \in {x \in ReductionCalls :
                                     x.reduce_op.kind \in {"iadd", "imul", "fmin"}
                                     /\ x.dst.reg = 262}}

\* a program of one block holding one of these, after an ALU instruction or
\* alone
SingleInstrPrograms ==
    {<<Block(0, pre \o <<i>>, <<>>)>> :
        pre \in {<<>>, <<Other("SOP2", "s_and_b64", 0)>>},
        i \in ExtractInstrs \cup CreateInstrs \cup SplitInstrs \cup MiscInstrs}

\* programs of NumBlocks blocks for the branches: a block is empty or holds
\* an ALU instruction, a pseudo instruction that is dropped, or a copy between
\* two ALU instructions; it ends with no branch or with a branch to any block
NumBlocks == 3
Bodies ==
    {<<>>,
     <<Other("VOP2", "v_add_f32", 1)>>,
     <<Pseudo("p_logical_end", <<>>, <<>>, 1)>>,
     <<Other("VOP2", "v_add_f32", 1),
       Pseudo("p_parallelcopy", <<Defn(0, 1)>>, <<TempOp(1, 1)>>, 2),
       Other("VOP1", "v_mov_b32", 3)>>}
BranchKinds ==
    {[opcode |-> "p_branch", operands |-> <<>>],
     [opcode |-> "p_cbranch_z", operands |-> <<TempOp(exec, 2)>>],
     [opcode |-> "p_cbranch_nz", operands |-> <<TempOp(vcc, 2)>>]}
\* how block b may end: [branch, linear_succs]
Ends(b) ==
    {[branch |-> <<>>, succs |-> IF b + 1 < NumBlocks THEN <<b + 1>> ELSE <<>>]}
    \cup {[branch |-> <<PseudoBranch(k.opcode, k.operands, t, 9)>>,
           succs |-> IF k.opcode = "p_branch" THEN <<t>> ELSE <<b + 1, t>>] :
             k \in IF b + 1 < NumBlocks THEN BranchKinds
                   ELSE {x \in BranchKinds : x.opcode = "p_branch"},
             t \in IF b + 1 < NumBlocks THEN 0..(NumBlocks - 1) ELSE {0}}
BlocksOf(b) ==
    {Block(b, body \o e.branch, e.succs) : body \in Bodies, e \in Ends(b)}
RECURSIVE ProgramsOf(_)
ProgramsOf(n) ==
    IF n = 0 THEN {<<>>}
    ELSE {Append(p, b) : p \in ProgramsOf(n - 1), b \in BlocksOf(n - 1)}
BranchPrograms == ProgramsOf(NumBlocks)

LowerPrograms == SingleInstrPrograms \cup BranchPrograms

-----------------------------------------------------------------------------
(* lower_to_hw_instr as a state machine: one step per instruction of the    *)
(* inner loop, one per block for the swap that ends the outer loop's body   *)

NewLowerCtx == [instructions |-> <<>>, from |-> <<>>]

InitLower ==
    /\ lw_in \in LowerPrograms
    /\ lw_blocks = lw_in
    /\ lw_opts \in IF lw_in \in SingleInstrPrograms
                   THEN [chip_class : {"GFX8", "GFX9"}, wb_smem_l1_on_end : BOOLEAN]
                   ELSE [chip_class : {"GFX9"}, wb_smem_l1_on_end : {FALSE}]
    /\ lw_block = 0
    /\ lw_instr = 1
    /\ lw_ctx = NewLowerCtx
    /\ lw_from = <<>>
    /\ lw_copies = <<>>
    /\ lw_pc = "lower"
    /\ IdleCopy
    /\ IdleDce
    /\ IdleExec
    /\ IdleFn

\* the instruction the inner loop is at
AtInstr ==
    /\ lw_pc = "lower"
    /\ lw_instr <= Len(lw_blocks[lw_block + 1].instructions)
CurInstr == lw_blocks[lw_block + 1].instructions[lw_instr]

\* a slip: code is put in front of ctx.instructions
EmplaceFront(code) ==
    [instructions |-> code \o lw_ctx.instructions,
     from |-> [i \in 1..Len(code) |-> lw_instr] \o lw_ctx.from]

\* code is appended to ctx.instructions for the instruction at lw_instr
EmplaceBack(code) ==
    [instructions |-> lw_ctx.instructions \o code,
     from |-> lw_ctx.from \o [i \in 1..Len(code) |-> lw_instr]]

\* lines 490-656
LowerPseudo ==
    /\ AtInstr
    /\ CurInstr.format = "PSEUDO"
    /\ LET r == LowerPseudoInstr(CurInstr, lw_opts)
       IN  /\ lw_ctx' = EmplaceBack(r.instructions)
           /\ lw_copies' = IF r.called THEN [instr |-> CurInstr, map |-> r.copies]
                           ELSE lw_copies
           /\ lw_pc' = IF r.ok THEN "lower" ELSE "assert_failed"
           /\ lw_instr' = IF r.ok THEN lw_instr + 1 ELSE lw_instr
    /\ UNCHANGED <<lw_blocks, lw_in, lw_opts, lw_block, lw_from>>
    /\ UNCHANGED notLower

\* lines 657-697
LowerBranch ==
    /\ AtInstr
    /\ CurInstr.format = "PSEUDO_BRANCH"
    /\ IF can_remove(lw_blocks, lw_block, CurInstr.target[1])
       THEN /\ lw_instr' = lw_instr + 1
            /\ UNCHANGED <<lw_ctx, lw_pc>>
       ELSE IF ~BranchAsserts(lw_blocks[lw_block + 1], CurInstr)
       THEN /\ lw_pc' = "assert_failed"
            /\ UNCHANGED <<lw_ctx, lw_instr>>
       ELSE /\ lw_ctx' = EmplaceBack(<<BranchCode(CurInstr)>>)
            /\ lw_instr' = lw_instr + 1
            /\ UNCHANGED lw_pc
    /\ UNCHANGED <<lw_blocks, lw_in, lw_opts, lw_block, lw_from, lw_copies>>
    /\ UNCHANGED notLower

\* lines 699-706
LowerReduction ==
    /\ AtInstr
    /\ CurInstr.format = "PSEUDO_REDUCTION"
    /\ lw_ctx' = EmplaceBack(emit_reduction(lw_opts.chip_class, CurInstr.opcode,
                                     CurInstr.reduce_op, CurInstr.cluster_size,
                                     CurInstr.operands[2].reg,
                                     CurInstr.definitions[2].reg,
                                     CurInstr.operands[3].reg,
                                     CurInstr.definitions[3].reg,
                                     CurInstr.operands[1], CurInstr.definitions[1]))
    /\ lw_instr' = lw_instr + 1
    /\ UNCHANGED <<lw_blocks, lw_in, lw_opts, lw_block, lw_from, lw_copies, lw_pc>>
    /\ UNCHANGED notLower

\* lines 707-709
LowerKeep ==
    /\ AtInstr
    /\ CurInstr.format \notin {"PSEUDO", "PSEUDO_BRANCH", "PSEUDO_REDUCTION"}
    /\ lw_ctx' = EmplaceBack(<<CurInstr>>)
    /\ lw_instr' = lw_instr + 1
    /\ UNCHANGED <<lw_blocks, lw_in, lw_opts, lw_block, lw_from, lw_copies, lw_pc>>
    /\ UNCHANGED notLower

\* line 712, and the next round of the loop of line 483 (lines 484-486)
LowerSwap ==
    /\ lw_pc = "lower"
    /\ lw_instr > Len(lw_blocks[lw_block + 1].instructions)
    /\ lw_blocks' = [lw_blocks EXCEPT ![lw_block + 1].instructions = lw_ctx.instructions]
    /\ lw_from' = Append(lw_from, lw_ctx.from)
    /\ lw_ctx' = NewLowerCtx
    /\ lw_instr' = 1
    /\ IF lw_block + 1 < Len(lw_blocks)
       THEN lw_block' = lw_block + 1 /\ UNCHANGED lw_pc
       ELSE lw_pc' = "done" /\ UNCHANGED lw_block
    /\ UNCHANGED <<lw_in, lw_opts, lw_copies>>
    /\ UNCHANGED notLower

NextLower ==
    LowerPseudo \/ LowerBranch \/ LowerReduction \/ LowerKeep \/ LowerSwap

SpecLower == InitLower /\ [][NextLower]_vars

-----------------------------------------------------------------------------
(* The copies of the vector pseudo instructions *)

\* handle_operands was last called for an instruction of opcode opc
CopiesOf(opc) == lw_copies # <<>> /\ lw_copies.instr.opcode = opc

\* the instructions of the current block the inner loop is past
Lowered == 1..(lw_instr - 1)
\* nothing in ctx.instructions stands for the instruction at position p
NothingFor(p) == \A i \in 1..Len(lw_ctx.from) : lw_ctx.from[i] # p

\* C32: p_split_vector: register j of definition i receives the source
\* register at offset (sum of the sizes of definitions 0..i-1) + j from the
\* operand's first register, whatever the sizes of the definitions.
C32_SplitOffsets ==
    CopiesOf("p_split_vector") =>
        LET instr == lw_copies.instr
        IN  \A i \in 1..Len(instr.definitions) :
                \A j \in 0..(instr.definitions[i].size - 1) :
                    LET d == instr.definitions[i].reg + j
                    IN  /\ d \in DOMAIN lw_copies.map
                        /\ lw_copies.map[d].op =
                               RegOperand(instr.operands[1].reg
                                          + SumSizes(instr.definitions, i - 1) + j)

\* the offset of operand i of a p_create_vector in its definition
CreateOffset(instr, i) == instr.definitions[1].reg + SumSizes(instr.operands, i - 1)

\* C33: p_create_vector: the registers of operand i are copied to the
\* destination registers starting at offset (sum of the sizes of operands
\* 0..i-1); the destination registers of an undefined operand are left
\* unwritten, a constant fills one register.
C33_CreateOffsets ==
    CopiesOf("p_create_vector") =>
        LET instr == lw_copies.instr
        IN  \A i \in 1..Len(instr.operands) :
                LET o == instr.operands[i]
                    at == CreateOffset(instr, i)
                IN  \A j \in 0..(o.size - 1) :
                        IF o.isUndef THEN at + j \notin DOMAIN lw_copies.map
                        ELSE /\ at + j \in DOMAIN lw_copies.map
                             /\ lw_copies.map[at + j].op =
                                    IF o.isConst THEN ConstOperand(o.val)
                                    ELSE RegOperand(o.reg + j)

\* the first source register of element n of size s
ElementReg(instr) ==
    instr.operands[1].reg + instr.operands[2].val * instr.definitions[1].size

\* C34: p_extract_vector: extracting element n into a definition of size s
\* copies the s source registers from offset n*s on into the definition's
\* registers, and emits nothing when that source location is the
\* definition's register or the operand is undefined.
C34_ExtractElement ==
    /\ CopiesOf("p_extract_vector") =>
           LET instr == lw_copies.instr
               d == instr.definitions[1]
           IN  /\ DOMAIN lw_copies.map = {d.reg + i : i \in 0..(d.size - 1)}
               /\ \A i \in 0..(d.size - 1) :
                      lw_copies.map[d.reg + i].op = RegOperand(ElementReg(instr) + i)
    /\ lw_pc = "lower" =>
           \A p \in Lowered :
               LET instr == lw_blocks[lw_block + 1].instructions[p]
               IN  (/\ instr.format = "PSEUDO"
                    /\ instr.opcode = "p_extract_vector"
                    /\ \/ instr.operands[1].isUndef
                       \/ ElementReg(instr) = instr.definitions[1].reg)
                       => NothingFor(p)

-----------------------------------------------------------------------------
(* Branches *)

LowerDone == lw_pc = "done"
LwBlockIds == 0..(Len(lw_in) - 1)

\* block b of the program on entry ends with a pseudo branch
EndsWithBranch(b) ==
    /\ lw_in[b + 1].instructions # <<>>
    /\ lw_in[b + 1].instructions[Len(lw_in[b + 1].instructions)].format = "PSEUDO_BRANCH"
BranchOfBlock(b) == lw_in[b + 1].instructions[Len(lw_in[b + 1].instructions)]

\* the lowered block b holds an instruction that stands for the instruction
\* at position p of the block on entry
StandsFor(b, p) == \E i \in 1..Len(lw_from[b + 1]) : lw_from[b + 1][i] = p

\* the pseudo branch of block b is gone and no machine branch stands for it
Dropped(b) ==
    /\ EndsWithBranch(b)
    /\ ~StandsFor(b, Len(lw_in[b + 1].instructions))

\* control that leaves the lowered block b at its end reaches block t
\* without executing an instruction
FallsThroughTo(b, t) ==
    /\ b < t
    /\ \A i \in (b + 1)..(t - 1) : lw_blocks[i + 1].instructions = <<>>
    /\ \A i \in 1..Len(lw_blocks[b + 1].instructions) :
           lw_blocks[b + 1].instructions[i].opcode
               \notin {"s_branch", "s_cbranch_execz", "s_cbranch_execnz",
                       "s_cbranch_vccz", "s_cbranch_vccnz", "s_cbranch_scc0",
                       "s_cbranch_scc1"}

\* C35: a pseudo branch is dropped without a machine branch only when the
\* target index is greater than the block's index and every block strictly
\* between them has no instructions; then falling through from the block
\* in the lowered program reaches the target without executing an
\* instruction, for conditional and unconditional branches alike.
C35_DroppedBranches ==
    LowerDone =>
        \A b \in LwBlockIds :
            Dropped(b) =>
                LET t == BranchOfBlock(b).target[1]
                IN  /\ b < t
                    /\ \A i \in (b + 1)..(t - 1) : lw_in[i + 1].instructions = <<>>
                    /\ FallsThroughTo(b, t)

\* a conditional branch over an empty block was dropped, and the branch of
\* another block of the same program was lowered to a machine branch
C35_Witness ==
    /\ LowerDone
    /\ \E b \in LwBlockIds :
           /\ Dropped(b)
           /\ BranchOfBlock(b).opcode # "p_branch"
           /\ BranchOfBlock(b).target[1] = b + 2
    /\ \E b \in LwBlockIds : EndsWithBranch(b) /\ ~Dropped(b)

-----------------------------------------------------------------------------
(* What lowering leaves alone *)

IsPseudoFormat(ins) == ins.format \in {"PSEUDO", "PSEUDO_BRANCH", "PSEUDO_REDUCTION"}
NotPseudoFormat(ins) == ~IsPseudoFormat(ins)
\* an instruction of the program on entry (the instructions built by the
\* pass carry no id)
FromEntry(ins) == "id" \in DOMAIN ins

\* C38: every instruction that is not of format PSEUDO, PSEUDO_BRANCH or
\* PSEUDO_REDUCTION is left unchanged and in its block, in the same relative
\* order; the instructions emitted for a pseudo-op stand at its position.
C38_Frame ==
    LowerDone =>
        \A b \in LwBlockIds :
            LET before == lw_in[b + 1].instructions
                after == lw_blocks[b + 1].instructions
                from == lw_from[b + 1]
            IN  /\ SelectSeq(after, FromEntry) = SelectSeq(before, NotPseudoFormat)
                /\ Len(from) = Len(after)
                /\ \A i \in 1..Len(after) :
                       /\ from[i] \in 1..Len(before)
                       /\ i > 1 => from[i - 1] <= from[i]
                       /\ FromEntry(after[i]) <=> NotPseudoFormat(before[from[i]])
                       /\ FromEntry(after[i]) => after[i] = before[from[i]]

\* a copy between two ALU instructions was lowered to a move between them
C38_Witness ==
    /\ LowerDone
    /\ \E b \in LwBlockIds :
           LET before == lw_in[b + 1].instructions
               after == lw_blocks[b + 1].instructions
           IN  /\ Len(before) >= 3 /\ Len(after) >= 3
               /\ NotPseudoFormat(before[1]) /\ before[2].opcode = "p_parallelcopy"
               /\ NotPseudoFormat(before[3])
               /\ after[1] = before[1] /\ after[2].opcode = "s_mov_b32"
               /\ after[3] = before[3]

\* the formats of pseudo instructions (enum class Format)
PseudoFormats == {"PSEUDO", "PSEUDO_BRANCH", "PSEUDO_BARRIER", "PSEUDO_REDUCTION"}

\* C7: after lower_to_hw_instr no block holds an instruction of a pseudo
\* format (PSEUDO, PSEUDO_BRANCH, PSEUDO_BARRIER or PSEUDO_REDUCTION).
C7_NoPseudoLeft ==
    LowerDone =>
        \A b \in LwBlockIds :
            \A i \in 1..Len(lw_blocks[b + 1].instructions) :
                lw_blocks[b + 1].instructions[i].format \notin PseudoFormats

\* the same for the three formats the pass has a branch for
NoLoweredFormatLeft ==
    LowerDone =>
        \A b \in LwBlockIds :
            \A i \in 1..Len(lw_blocks[b + 1].instructions) :
                NotPseudoFormat(lw_blocks[b + 1].instructions[i])

-----------------------------------------------------------------------------
(* The machine code of p_discard_if, executed *)

\* the size of an instruction in dwords: SOP2 and SOPP take one, EXP and
\* SMEM two
Dwords(ins) == IF ins.format \in {"EXP", "SMEM"} THEN 2 ELSE 1

RECURSIVE CodeSize(_)
CodeSize(code) == IF code = <<>> THEN 0 ELSE Dwords(Head(code)) + CodeSize(Tail(code))

\* the instruction of code that starts at dword a, or 0 when none does
RECURSIVE IndexAt(_, _, _)
IndexAt(code, a, i) ==
    IF i > Len(code) \/ a < 0 THEN 0
    ELSE IF a = 0 THEN i
    ELSE IndexAt(code, a - Dwords(code[i]), i + 1)

\* execution from dword pc on; m gives each mask register its lanes, done
\* the instructions executed so far
RECURSIVE RunFrom(_, _, _, _, _)
RunFrom(code, pc, m, s, done) ==
    IF pc = CodeSize(code)
    THEN [ended |-> "continues", masks |-> m, executed |-> done]
    ELSE LET i == IndexAt(code, pc, 1)
         IN  IF i = 0 THEN [ended |-> "fault", masks |-> m, executed |-> done]
             ELSE LET ins == code[i]
                      next == pc + Dwords(ins)
                  IN  CASE ins.opcode = "s_andn2_b64" ->
                               LET v == m[ins.operands[1].reg] \ m[ins.operands[2].reg]
                               IN  RunFrom(code, next,
                                           [m EXCEPT ![ins.definitions[1].reg] = v],
                                           v # {}, Append(done, i))
                        [] ins.opcode = "s_cbranch_scc1" ->
                               RunFrom(code, IF s THEN next + ins.imm ELSE next, m, s,
                                       Append(done, i))
                        [] ins.opcode = "s_endpgm" ->
                               [ended |-> "terminated", masks |-> m,
                                executed |-> Append(done, i)]
                        [] OTHER -> RunFrom(code, next, m, s, Append(done, i))

\* a p_discard_if was lowered, alone in its block, and its code is in ctx
DiscardIfLowered ==
    /\ lw_pc = "lower" /\ lw_instr = 2
    /\ lw_blocks[lw_block + 1].instructions[1].opcode = "p_discard_if"
DiscardIfInstr == lw_blocks[lw_block + 1].instructions[1]

\* the mask operands and the condition of the instruction, and the values
\* they may hold
MaskRegs(instr) == {instr.operands[i].reg : i \in 1..Len(instr.operands)}
MaskValues(instr) == [MaskRegs(instr) -> SUBSET Lanes]

OpcodesOf(code, idx) == [i \in 1..Len(idx) |-> code[idx[i]].opcode]

\* C8: in the code of p_discard_if the masks are narrowed from the last mask
\* operand to operand 0, each losing the lanes of the condition; the null
\* export and s_endpgm are executed exactly when operand 0 is left empty;
\* otherwise they are skipped and execution continues after them.
C8_DiscardIfCode ==
    DiscardIfLowered =>
        LET instr == DiscardIfInstr
            code == lw_ctx.instructions
            n == Len(instr.operands)
            cond == instr.operands[n].reg
        IN  /\ \A k \in 1..(n - 1) :
                   /\ code[k].opcode = "s_andn2_b64"
                   /\ code[k].operands[1] = instr.operands[n - k]
                   /\ code[k].definitions[1] = instr.definitions[n - k]
            /\ \A m \in MaskValues(instr) :
                   LET r == RunFrom(code, 0, m, FALSE, <<>>)
                       left == m[instr.operands[1].reg] \ m[cond]
                       tail == SubSeq(r.executed, n + 1, Len(r.executed))
                   IN  /\ \A k \in 1..(n - 1) :
                              r.masks[instr.definitions[k].reg] = m[instr.operands[k].reg] \ m[cond]
                       /\ left = {} =>
                              /\ r.ended = "terminated"
                              /\ OpcodesOf(code, tail) \in
                                     {<<"exp", "s_endpgm">>, <<"exp", "s_dcache_wb", "s_endpgm">>}
                       /\ left # {} =>
                              /\ r.ended = "continues"
                              /\ tail = <<>>

\* the code was emitted for two masks with the write-back of the scalar
\* cache in the terminate sequence
C8_Witness ==
    /\ DiscardIfLowered
    /\ Len(DiscardIfInstr.operands) = 3
    /\ lw_opts.wb_smem_l1_on_end
    /\ Len(lw_ctx.instructions) = 6
=============================================================================
